---------------------------- MODULE Spec2Model ----------------------------
(***************************************************************************)
(* Story decomposition / synchronisation scripts of the repository         *)
(* owl-client-relationship (directory story-building).                      *)
(*                                                                         *)
(* Text is modelled at token level:                                        *)
(*   - a title is a sequence of string tokens; an issue number is rendered *)
(*     by ToString, the prefix "Story #" and the separator " - " (en dash, *)
(*     written " -- " here) are tokens of their own;                       *)
(*   - a body is a sequence of lines; a line is a record that says which   *)
(*     of the scripts' regular expressions it matches (k), the checkbox    *)
(*     mark and number of a checklist line, the remaining text, and        *)
(*     whether the line ends in whitespace (ws).                           *)
(***************************************************************************)
EXTENDS Integers, Sequences, FiniteSets, TLC

VARIABLES
    td,         \* title derivation: [script, prefix, parent, raw, out, done]
    cl,         \* checklist merger: [body, before, req, calls, sent]
    nb,         \* notebook pass: tracker input, stored document, last pass
    sy,         \* sync engine: configuration, tracker, position of the run
    ol,         \* outline passes: tracker, outline lines, last pass
    pg,         \* compute_progress: parent body, child states, result
    ca,         \* descriptor cache of one parent: flags, cache file, last run
    nl,         \* notebook-link pass: issue body, last pass
    rw,         \* a parent body with two merger passes and an editor
    an          \* the text after the link of one node line, annotate passes

titleVars == <<td>>
clVars == <<cl>>
nbVars == <<nb>>
syVars == <<sy>>
olVars == <<ol>>
pgVars == <<pg>>
caVars == <<ca>>
nlVars == <<nl>>
rwVars == <<rw>>
anVars == <<an>>
vars == <<td, cl, nb, sy, ol, pg, ca, nl, rw, an>>

---------------------------------------------------------------------------
(* Shared helpers on sequences.                                            *)

startswith(s, p) == Len(s) >= Len(p) /\ SubSeq(s, 1, Len(p)) = p

RECURSIVE IsSubseq(_, _)
\* a is a subsequence of b: the elements of a occur in b, in the same order
IsSubseq(a, b) ==
    IF a = <<>> THEN TRUE
    ELSE IF b = <<>> THEN FALSE
    ELSE IF Head(a) = Head(b) THEN IsSubseq(Tail(a), Tail(b))
    ELSE IsSubseq(a, Tail(b))

Range(s) == {s[i] : i \in 1..Len(s)}

\* sequences over S of length 0..n
SeqsUpTo(S, n) == UNION {[1..k -> S] : k \in 0..n}

\* sequences over S without repetition, length 0..n
DistinctSeqs(S, n) ==
    {s \in SeqsUpTo(S, n) : \A i, j \in 1..Len(s) : i # j => s[i] # s[j]}

---------------------------------------------------------------------------
(* TitleKeyDeriver: the three scripts' derivation of a child title.        *)

Scripts == {"step4", "step3", "ai"}

DefaultPrefix == "Story #"
Prefixes == {DefaultPrefix, "Task #"}
Dash == " -- "

\* f'Story #{parent_number} - ' (an en dash in the source)
RenderedPrefix(parent_number) == <<"Story #", ToString(parent_number), Dash>>

sub_issue_title_has_prefix(title, parent_number) ==
    startswith(title, RenderedPrefix(parent_number))

\* step4 process_parent, lines 385-386
SubTitleStep4(STORY_PREFIX, pnum, title) ==
    IF ~sub_issue_title_has_prefix(title, pnum)
    THEN <<STORY_PREFIX, ToString(pnum), Dash>> \o title
    ELSE title

\* step3 main: ISSUE_TITLE_PREFIX_TEMPLATE.format(parent=..., title=raw_title)
SubTitleStep3(parent_issue_number, raw_title) ==
    <<"Story #", ToString(parent_issue_number), Dash>> \o raw_title

\* ai-decompose main: f"Story #{story_num} - {t['title']}"
SubTitleAi(story_num, title) ==
    <<"Story #", ToString(story_num), Dash>> \o title

DeriveChildTitle(scr, STORY_PREFIX, pnum, title) ==
    CASE scr = "step4" -> SubTitleStep4(STORY_PREFIX, pnum, title)
      [] scr = "step3" -> SubTitleStep3(pnum, title)
      [] scr = "ai"    -> SubTitleAi(pnum, title)

---------------------------------------------------------------------------
(* Body text: lines.                                                       *)

EmDash == " --- "

\* a line that matches ^- \[.\] #(\d+) : "- [<mark>] #<num><text>"
CheckLine(mark, n, text, ws) ==
    [k |-> "check", mark |-> mark, num |-> n, text |-> text, ws |-> ws]
\* a line with l.strip().lower().startswith('### sub-issues')
HeaderLine(text) ==
    [k |-> "header", mark |-> "", num |-> 0, text |-> text, ws |-> FALSE]
\* a line of whitespace only (ws: it holds blanks), l.strip() = ''
BlankLine(ws) ==
    [k |-> "blank", mark |-> "", num |-> 0, text |-> <<>>, ws |-> ws]
\* any other line; an indented "  - [ ] #n" is such a line: ^- does not match
TextLine(text, ws) ==
    [k |-> "text", mark |-> "", num |-> 0, text |-> text, ws |-> ws]

\* str.rstrip() of a text given as its lines: the trailing whitespace-only
\* lines go, and so does the whitespace that ends the last line left
LastNonBlank(lines) ==
    LET idx == {i \in 1..Len(lines) : lines[i].k # "blank"}
    IN IF idx = {} THEN 0 ELSE CHOOSE i \in idx : \A j \in idx : j <= i

rstrip(lines) ==
    LET n == LastNonBlank(lines)
    IN [i \in 1..n |-> IF i = n THEN [lines[i] EXCEPT !.ws = FALSE] ELSE lines[i]]

\* step4 extract_existing_child_numbers (the same in step3 and ai-decompose)
extract_existing_child_numbers(body) ==
    {body[i].num : i \in {j \in 1..Len(body) : body[j].k = "check"}}

RECURSIVE FilterNotIn(_, _)
\* [n for n in nums if n not in existing]
FilterNotIn(nums, existing) ==
    IF nums = <<>> THEN <<>>
    ELSE (IF Head(nums) \in existing THEN <<>> ELSE <<Head(nums)>>)
         \o FilterNotIn(Tail(nums), existing)

\* mutant: the numbers already referenced are not filtered out
add_nums_unfiltered(body, new_child_numbers) == new_child_numbers

\* step4 append_checklist line 318
add_nums_of(body, new_child_numbers) ==
    FilterNotIn(new_child_numbers, extract_existing_child_numbers(body))

\* mutant: the checklist section is rebuilt from the new entries alone
checklist_new_body_rebuilt(body, add_nums, title_of) ==
    LET kept == [i \in 1..Len(SelectSeq(body, LAMBDA l : l.k # "check")) |->
                    SelectSeq(body, LAMBDA l : l.k # "check")[i]]
    IN kept \o [i \in 1..Len(add_nums) |->
                   CheckLine(" ", add_nums[i],
                             <<EmDash>> \o title_of[add_nums[i]], FALSE)]

\* the new body with the new entries in reverse order
checklist_new_body_reversed(body, add_nums, title_of) ==
    LET l0 == rstrip(body)
        l1 == IF l0 # <<>> /\ l0[Len(l0)].k # "blank"
              THEN Append(l0, BlankLine(FALSE)) ELSE l0
        l2 == IF ~(\E i \in 1..Len(l1) : l1[i].k = "header")
              THEN Append(l1, HeaderLine(<<"### Sub-issues">>)) ELSE l1
        l3 == l2 \o [i \in 1..Len(add_nums) |->
                        CheckLine(" ", add_nums[Len(add_nums) + 1 - i],
                                  <<EmDash>>
                                    \o title_of[add_nums[Len(add_nums) + 1 - i]],
                                  FALSE)]
    IN rstrip(l3)

\* the new body when the header is appended without looking for one
checklist_new_body_header_always(body, add_nums, title_of) ==
    LET l0 == rstrip(body)
        l1 == IF l0 # <<>> /\ l0[Len(l0)].k # "blank"
              THEN Append(l0, BlankLine(FALSE)) ELSE l0
        l2 == Append(l1, HeaderLine(<<"### Sub-issues">>))
        l3 == l2 \o [i \in 1..Len(add_nums) |->
                        CheckLine(" ", add_nums[i],
                                  <<EmDash>> \o title_of[add_nums[i]], FALSE)]
    IN rstrip(l3)

\* step4 append_checklist lines 321-335: the new body, for a non-empty
\* add_nums; title_of[n] is the title snapshot fetched for child n
checklist_new_body(body, add_nums, title_of) ==
    LET l0 == rstrip(body)
        l1 == IF l0 # <<>> /\ l0[Len(l0)].k # "blank"
              THEN Append(l0, BlankLine(FALSE)) ELSE l0
        l2 == IF ~(\E i \in 1..Len(l1) : l1[i].k = "header")
              THEN Append(l1, HeaderLine(<<"### Sub-issues">>)) ELSE l1
        l3 == l2 \o [i \in 1..Len(add_nums) |->
                        CheckLine(" ", add_nums[i],
                                  <<EmDash>> \o title_of[add_nums[i]], FALSE)]
    IN rstrip(l3)

RECURSIVE ChecklistLines(_)
\* the checklist lines of a body, in order
ChecklistLines(body) ==
    IF body = <<>> THEN <<>>
    ELSE (IF Head(body).k = "check" THEN <<Head(body)>> ELSE <<>>)
         \o ChecklistLines(Tail(body))

\* append_checklist without the return at "if not add_nums"
append_checklist_updates_always(body, new_child_numbers) ==
    new_child_numbers # <<>>

\* step4 append_checklist lines 308-320: whether the call goes on to build
\* and send a new body
append_checklist_updates(body, new_child_numbers) ==
    /\ new_child_numbers # <<>>
    /\ add_nums_of(body, new_child_numbers) # <<>>

\* step4 append_checklist: the body the parent has after the call succeeded
append_checklist(body, new_child_numbers, title_of, dry_run) ==
    IF append_checklist_updates(body, new_child_numbers) /\ ~dry_run
    THEN checklist_new_body(body, add_nums_of(body, new_child_numbers), title_of)
    ELSE body

---------------------------------------------------------------------------
(* Values of the variables a specification does not use.                   *)

TdIdle == [script |-> "step4", prefix |-> DefaultPrefix, parent |-> 1,
           raw |-> <<>>, out |-> <<>>, done |-> TRUE]
ClIdle == [init |-> <<>>, body |-> <<>>, before |-> <<>>, req |-> <<>>,
           calls |-> 0, sent |-> FALSE, titles_ok |-> TRUE]
NbIdle == [title |-> <<>>, state |-> "open", body |-> 0, cfg |-> "default",
           exists |-> FALSE, cells |-> <<>>, base |-> <<>>, report |-> "",
           wrote |-> FALSE, changed |-> FALSE,
           fields |-> {}, fields0 |-> {}, repaired |-> FALSE]
SyIdle == [script |-> "step4", dry_run |-> FALSE, prefix |-> DefaultPrefix,
           desc |-> <<>>, cdesc |-> <<>>, description |-> <<>>,
           issues |-> <<>>, run |-> 0,
           pc |-> "idle", parents |-> <<>>, pidx |-> 1, tidx |-> 1,
           repo |-> {}, created_numbers |-> <<>>, created |-> 0,
           skipped |-> 0, fails |-> 0, log |-> {},
           last |-> [seen |-> FALSE, existed |-> FALSE, act |-> "", number |-> 0],
           orphans |-> {}, passed |-> <<>>, handed |-> FALSE,
           abort_at |-> "", n0 |-> 0, f0 |-> 0,
           skip_if |-> FALSE, ph |-> <<>>, wrote |-> FALSE, looked |-> {}]
OlIdle == [tracker |-> 0, include_zero |-> FALSE, lines |-> <<>>,
           prev |-> <<>>, last |-> ""]
PgIdle == [body |-> <<>>, states |-> <<>>, out |-> <<>>, done |-> TRUE]
CaIdle == [cache_tasks |-> FALSE, regenerate_tasks |-> FALSE,
           cache |-> [exists |-> FALSE, tasks |-> <<>>],
           before |-> [exists |-> FALSE, tasks |-> <<>>],
           answer |-> <<>>, tasks |-> <<>>, calls |-> 0, run |-> 0]
NlIdle == [dry_run |-> FALSE, body |-> <<>>, before |-> <<>>, sent |-> FALSE,
           skipped |-> FALSE, calls |-> 0]
RwIdle == [serial |-> TRUE, body |-> <<>>,
           pass |-> [p \in {"a", "b"} |->
                       [pc |-> "idle", local |-> <<>>, req |-> <<>>, runs |-> 0]],
           notes |-> {}, ticks |-> {}, nums |-> {}, edits |-> 0,
           last |-> [by |-> "", stale |-> FALSE, sent |-> FALSE]]
AnIdle == [progress |-> <<0, 0, 0>>, rest |-> <<>>, prev |-> <<>>, passes |-> 0]

---------------------------------------------------------------------------
(* SpecTitle: the title derivation applied to bounded inputs.              *)

MaxParentNumber == 2
Words == {"A", "B"}
\* raw task titles: plain ones, and ones that carry a rendered prefix
RawTitles ==
    {<<w>> : w \in Words}
    \cup {RenderedPrefix(p) \o <<w>> : p \in 1..MaxParentNumber, w \in Words}
    \cup {<<"Task #", ToString(p), Dash, "A">> : p \in 1..MaxParentNumber}

InitTitle ==
    /\ td \in [script : Scripts, prefix : Prefixes, parent : 1..MaxParentNumber,
               raw : RawTitles, out : {<<>>}, done : {FALSE}]
    /\ td.script # "step4" => td.prefix = DefaultPrefix
    /\ cl = ClIdle
    /\ nb = NbIdle
    /\ sy = SyIdle
    /\ ol = OlIdle
    /\ pg = PgIdle
    /\ ca = CaIdle
    /\ nl = NlIdle
    /\ rw = RwIdle
    /\ an = AnIdle

Derive ==
    /\ ~td.done
    /\ td' = [td EXCEPT
                !.out = DeriveChildTitle(td.script, td.prefix, td.parent, td.raw),
                !.done = TRUE]
    /\ UNCHANGED <<clVars, nbVars, syVars, olVars, pgVars, caVars, nlVars, rwVars, anVars>>

NextTitle == Derive

SpecTitle == InitTitle /\ [][NextTitle]_vars

\* C7: under the default prefix, the derived child title is rawTitle itself
\* when rawTitle already begins with the rendered prefix "Story #<parent> - ",
\* and "Story #<parent> - <rawTitle>" otherwise, in every script.
C7_DerivationShape ==
    (td.done /\ td.prefix = DefaultPrefix) =>
        td.out = IF startswith(td.raw, RenderedPrefix(td.parent))
                 THEN td.raw
                 ELSE RenderedPrefix(td.parent) \o td.raw

---------------------------------------------------------------------------
(* SpecChecklist: append_checklist applied, several times in a row, to a   *)
(* parent body drawn from bounded sets.                                    *)

MaxBodyLines == 2
MaxMerges == 2
\* child numbers asked for: 2 may be in the body already, 3 never is
RequestNums == {2, 3}
LineAlphabet ==
    { TextLine(<<"notes">>, FALSE),
      BlankLine(TRUE),
      HeaderLine(<<"### sub-issues (manual)">>),
      CheckLine(" ", 1, <<EmDash, "T", "1">>, FALSE),
      CheckLine("x", 2, <<>>, TRUE) }

\* the title snapshot append_checklist fetches for child n (lines 330-333)
FetchedTitle(n, ok) ==
    IF ok THEN <<"T", ToString(n)>> ELSE <<"(title unavailable)">>

InitChecklist ==
    /\ \E b \in SeqsUpTo(LineAlphabet, MaxBodyLines), ok \in BOOLEAN :
          cl = [init |-> b, body |-> b, before |-> b, req |-> <<>>,
                calls |-> 0, sent |-> FALSE, titles_ok |-> ok]
    /\ td = TdIdle
    /\ nb = NbIdle
    /\ sy = SyIdle
    /\ ol = OlIdle
    /\ pg = PgIdle
    /\ ca = CaIdle
    /\ nl = NlIdle
    /\ rw = RwIdle
    /\ an = AnIdle

\* one call append_checklist(parent, nums) that meets no transport error
ClMerge ==
    /\ cl.calls < MaxMerges
    /\ \E nums \in DistinctSeqs(RequestNums, Cardinality(RequestNums)) :
          cl' = [cl EXCEPT
                   !.before = cl.body,
                   !.req = nums,
                   !.calls = cl.calls + 1,
                   !.sent = append_checklist_updates(cl.body, nums),
                   !.body = append_checklist(cl.body, nums,
                               [n \in RequestNums |-> FetchedTitle(n, cl.titles_ok)],
                               FALSE)]
    /\ UNCHANGED <<titleVars, nbVars, syVars, olVars, pgVars, caVars, nlVars, rwVars, anVars>>

NextChecklist == ClMerge

SpecChecklist == InitChecklist /\ [][NextChecklist]_vars

NoWs(lines) == [i \in 1..Len(lines) |-> [lines[i] EXCEPT !.ws = FALSE]]

NumbersUnique(body) ==
    \A i, j \in 1..Len(body) :
        (i # j /\ body[i].k = "check" /\ body[j].k = "check")
            => body[i].num # body[j].num

\* C4: when each child number is referenced by at most one checklist line of
\* the initial body, the same holds after any sequence of merges.
C4_NoDuplicateNumber ==
    NumbersUnique(cl.init) => NumbersUnique(cl.body)

\* a second merge that was asked for child 2, already referenced, and for a
\* new child, and sent a body
C4_Witness ==
    /\ NumbersUnique(cl.init)
    /\ cl.calls = 2
    /\ cl.sent
    /\ 2 \in Range(cl.req)
    /\ 2 \in extract_existing_child_numbers(cl.before)

\* C23: a merge asked only for numbers the body references already leaves
\* the body as it is and sends no update
C23_NoOpWhenAllReferenced ==
    (cl.calls > 0
     /\ Range(cl.req) \subseteq extract_existing_child_numbers(cl.before))
        => cl.body = cl.before /\ ~cl.sent

\* C23: a merge was asked for a child that a checklist line ending in
\* whitespace references, and for nothing else
C23_Witness ==
    /\ cl.calls > 0
    /\ cl.req = <<2>>
    /\ \E i \in 1..Len(cl.before) :
         cl.before[i].k = "check" /\ cl.before[i].num = 2 /\ cl.before[i].ws
    /\ cl.body = cl.before

\* the lines of a body that append_checklist takes for the section header
HeaderLines(body) == SelectSeq(body, LAMBDA l : l.k = "header")

\* C37: after any number of merges on a body that had at most one header
\* line, once a merge has added an entry the body has exactly one header
\* line: the one it had, or else the line "### Sub-issues" inserted once.
C37_SingleHeader ==
    (Len(HeaderLines(cl.init)) <= 1 /\ cl.body # cl.init) =>
        /\ Len(HeaderLines(cl.body)) = 1
        /\ HeaderLines(cl.body) =
              IF HeaderLines(cl.init) # <<>> THEN HeaderLines(cl.init)
              ELSE << HeaderLine(<<"### Sub-issues">>) >>

\* C37 witness: two merges in a row each added an entry to a body that
\* had no header line at the start
C37_Witness ==
    /\ HeaderLines(cl.init) = <<>>
    /\ cl.calls = 2 /\ cl.sent
    /\ cl.before # cl.init
    /\ Len(HeaderLines(cl.body)) = 1

---------------------------------------------------------------------------
(* NotebookMerger: template_notebooks_from_issues.py.                      *)
(* A cell is [cell_type, source, id]: source is a sequence of lines, id is *)
(* <<>> when the cell has no 'id' key.                                     *)

H1Line(title) ==
    [k |-> "h1", mark |-> "", num |-> 0, text |-> title, ws |-> FALSE]
ParentLinkLine(n) ==
    [k |-> "plink", mark |-> "", num |-> n, text |-> <<>>, ws |-> FALSE]
StatusLine(state) ==
    [k |-> "status", mark |-> "", num |-> 0, text |-> <<state>>, ws |-> FALSE]
OverviewLine ==
    [k |-> "overview", mark |-> "", num |-> 0, text |-> <<>>, ws |-> FALSE]
\* a line that matches ^### Sub-issue #(\d+):
SubHeadingLine(n, title) ==
    [k |-> "subheading", mark |-> "", num |-> n, text |-> title, ws |-> FALSE]
LinkLine(n) ==
    [k |-> "link", mark |-> "", num |-> n, text |-> <<>>, ws |-> FALSE]
\* a line with l.strip().lower() == '### notebook'
NbHeaderLine ==
    [k |-> "nbheader", mark |-> "", num |-> 0, text |-> <<>>, ws |-> FALSE]
TodoLine(n) ==
    [k |-> "todo", mark |-> "", num |-> n, text |-> <<>>, ws |-> FALSE]

\* a source line as a notebook editor stores it: with its "\n"
WithNewline(line) == [line EXCEPT !.ws = TRUE]

md_cell(lines, id) == [cell_type |-> "markdown", source |-> lines, id |-> id]
code_cell(lines, id) == [cell_type |-> "code", source |-> lines, id |-> id]

\* uuid.uuid4().hex[:8] for the cell at position pos: seed is the draw
new_id(seed, pos) == <<seed, ToString(pos)>>

\* CHECKLIST_CHILD = ^- \[(?: |x|X)\] #(\d+)
ChecklistMarks == {" ", "x", "X"}

RECURSIVE extract_child_numbers(_)
\* template_notebooks extract_child_numbers: a list, in body order
extract_child_numbers(parent_body) ==
    IF parent_body = <<>> THEN <<>>
    ELSE (IF Head(parent_body).k = "check" /\ Head(parent_body).mark \in ChecklistMarks
          THEN <<Head(parent_body).num>> ELSE <<>>)
         \o extract_child_numbers(Tail(parent_body))

\* text.strip() of a text given as its lines
FirstNonBlank(lines) ==
    LET nbl == {i \in 1..Len(lines) : lines[i].k # "blank"}
    IN IF nbl = {} THEN Len(lines) + 1 ELSE CHOOSE i \in nbl : \A j \in nbl : i <= j

strip(lines) ==
    LET r == rstrip(lines) IN SubSeq(r, FirstNonBlank(r), Len(r))

RECURSIVE SanitizeFrom(_, _)
\* sanitize_description lines 140-151: skip is skip_notebook
SanitizeFrom(lines, skip) ==
    IF lines = <<>> THEN <<>>
    ELSE LET l == Head(lines) IN
         IF l.k = "nbheader" THEN SanitizeFrom(Tail(lines), TRUE)
         ELSE IF skip /\ l.k # "header" THEN SanitizeFrom(Tail(lines), TRUE)
         ELSE IF l.k = "check" /\ l.mark \in ChecklistMarks
              THEN SanitizeFrom(Tail(lines), FALSE)
         ELSE <<l>> \o SanitizeFrom(Tail(lines), FALSE)

sanitize_description(body) == strip(SanitizeFrom(body, FALSE))

\* header_lines / desired_header
desired_header(parent_issue) ==
    << H1Line(parent_issue.title), BlankLine(FALSE),
       ParentLinkLine(parent_issue.number), StatusLine(parent_issue.state) >>

\* section_md.splitlines()
section_md(ch) ==
    << SubHeadingLine(ch.number, ch.title), BlankLine(FALSE),
       LinkLine(ch.number), BlankLine(FALSE), StatusLine(ch.state),
       BlankLine(FALSE), TextLine(<<"Implementation Notes:">>, FALSE) >>

RECURSIVE SectionCells(_, _, _, _)
\* the cells appended for the children chs, the first at position pos
SectionCells(chs, placeholders, seed, pos) ==
    IF chs = <<>> THEN <<>>
    ELSE <<md_cell(section_md(Head(chs)), new_id(seed, pos))>>
         \o (IF placeholders
             THEN <<code_cell(<<TodoLine(Head(chs).number)>>, new_id(seed, pos + 1))>>
             ELSE <<>>)
         \o SectionCells(Tail(chs), placeholders, seed,
                         pos + (IF placeholders THEN 2 ELSE 1))

\* build_notebook_json: the cells of the new notebook
build_notebook_json(parent_issue, child_issues, placeholders, seed) ==
    LET description == sanitize_description(parent_issue.body)
        head == <<md_cell(desired_header(parent_issue), new_id(seed, 1))>>
                \o (IF description # <<>>
                    THEN <<md_cell(description, new_id(seed, 2))>> ELSE <<>>)
        over == head \o (IF child_issues # <<>>
                         THEN <<md_cell(<<OverviewLine>>, new_id(seed, Len(head) + 1))>>
                         ELSE <<>>)
    IN over \o SectionCells(child_issues, placeholders, seed, Len(over) + 1)

\* extract_existing_subissue_numbers
extract_existing_subissue_numbers(cells) ==
    {cells[i].source[j].num :
        <<i, j>> \in {<<a, b>> \in (1..Len(cells)) \X (1..8) :
                        /\ cells[a].cell_type = "markdown"
                        /\ b <= Len(cells[a].source)
                        /\ cells[a].source[b].k = "subheading"}}

\* update_header_cell: the cells after the call; seed draws the id it may add
update_header_cell(cells, parent_issue, refresh_status, seed) ==
    IF cells = <<>> THEN cells
    ELSE IF cells[1].cell_type # "markdown" THEN cells
    ELSE LET first == cells[1]
             existing_lines == [i \in 1..Len(first.source) |->
                                   [first.source[i] EXCEPT !.ws = FALSE]]
             desired == desired_header(parent_issue)
             src == IF existing_lines = <<>> \/ existing_lines[1] # desired[1]
                       \/ refresh_status
                    THEN desired ELSE first.source
             id == IF first.id = <<>> THEN new_id(seed, 1) ELSE first.id
         IN [cells EXCEPT ![1] = [first EXCEPT !.source = src, !.id = id]]

\* ensure_cell_ids: the cells after the call, and the number it returns
ensure_cell_ids(cells, seed) ==
    [i \in 1..Len(cells) |->
        IF cells[i].id = <<>> THEN [cells[i] EXCEPT !.id = new_id(seed, i)]
        ELSE cells[i]]

ensure_cell_ids_changed(cells) ==
    Cardinality({i \in 1..Len(cells) : cells[i].id = <<>>})

RECURSIVE FilterChildren(_, _)
\* [ci for ci in child_issues if ci.get('number') not in existing_nums]
FilterChildren(child_issues, existing_nums) ==
    IF child_issues = <<>> THEN <<>>
    ELSE (IF Head(child_issues).number \in existing_nums THEN <<>>
          ELSE <<Head(child_issues)>>)
         \o FilterChildren(Tail(child_issues), existing_nums)

to_add_of(cells, child_issues) ==
    FilterChildren(child_issues, extract_existing_subissue_numbers(cells))

has_overview(cells) ==
    \E i \in 1..Len(cells) :
        /\ cells[i].cell_type = "markdown"
        /\ \E j \in 1..Len(cells[i].source) : cells[i].source[j].k = "overview"

\* mutant: the new sections are put right after the first cell
append_new_subissue_sections_inserted(cells, child_issues, placeholders, seed) ==
    LET to_add == FilterChildren(child_issues, extract_existing_subissue_numbers(cells))
    IN IF to_add = <<>> \/ cells = <<>> THEN cells
       ELSE <<cells[1]>> \o SectionCells(to_add, placeholders, seed, 2)
            \o Tail(cells)

\* append_new_subissue_sections: the cells after the call (it returns
\* len(to_add))
append_new_subissue_sections(cells, child_issues, placeholders, seed) ==
    LET to_add == to_add_of(cells, child_issues)
        c1 == IF to_add # <<>> /\ ~has_overview(cells)
              THEN Append(cells, md_cell(<<OverviewLine>>, new_id(seed, Len(cells) + 1)))
              ELSE cells
    IN IF to_add = <<>> THEN cells
       ELSE c1 \o SectionCells(to_add, placeholders, seed, Len(c1) + 1)

---------------------------------------------------------------------------
(* SpecNotebook: passes of template_notebooks main over one outline        *)
(* mapping, between changes of the tracker.                                *)

MaxCells == 2
Uuids == {"u1", "u2"}
\* the script's environment: at most one switch set
NbConfigs == {"default", "refresh", "placeholders", "overwrite", "dry_run"}
NbTitles == <<(<<"T1">>), (<<"T2">>)>>
Notes == TextLine(<<"notes">>, FALSE)

\* the parent's body over time: children are added (1 -> 2 -> 3); 4 names a
\* child twice, 5 has a '### Notebook' section and a mark CHECKLIST_CHILD
\* does not accept, 6 quotes a section heading of a notebook in its text
NbParentBodies ==
    << <<>>,
       <<Notes, CheckLine(" ", 2, <<EmDash, "T", "2">>, FALSE)>>,
       <<Notes, CheckLine("x", 2, <<EmDash, "T", "2">>, FALSE),
                CheckLine(" ", 3, <<EmDash, "T", "3">>, FALSE)>>,
       <<CheckLine(" ", 2, <<>>, FALSE), CheckLine("X", 2, <<>>, FALSE)>>,
       <<NbHeaderLine, TextLine(<<"[[notebooks/a.ipynb]]">>, FALSE),
         HeaderLine(<<"### Sub-issues">>), CheckLine("~", 2, <<>>, FALSE)>>,
       <<SubHeadingLine(3, <<"old">>),
         CheckLine(" ", 2, <<EmDash, "T", "2">>, FALSE)>> >>

NbParent == [number |-> 1, title |-> nb.title, state |-> nb.state,
             body |-> NbParentBodies[nb.body]]
NbChild(n) == [number |-> n, title |-> <<"T", ToString(n)>>, state |-> "open"]

\* main lines 334-338: the children fetched for the numbers of the checklist
\* (every fetch_issue succeeds)
FetchChildren(child_nums) == [i \in 1..Len(child_nums) |-> NbChild(child_nums[i])]

\* cells a stored notebook may hold at the start: a header as an editor
\* saved it, user cells (one without id), a section of child 2
CellAlphabet ==
    { md_cell(<<WithNewline(H1Line(NbTitles[1])), WithNewline(BlankLine(FALSE)),
                WithNewline(ParentLinkLine(1)), StatusLine("open")>>, <<"old">>),
      md_cell(<<TextLine(<<"my notes">>, FALSE)>>, <<"old">>),
      md_cell(<<TextLine(<<"my notes">>, FALSE)>>, <<>>),
      code_cell(<<TextLine(<<"print(1)">>, FALSE)>>, <<"old">>),
      md_cell(section_md(NbChild(2)), <<"old">>) }

\* the document a pass computed has more cells than the stored one, or a
\* cell whose content (source) differs
ContentDiffers(stored, computed) ==
    \/ Len(computed) # Len(stored)
    \/ \E i \in 1..Len(stored) : computed[i].source # stored[i].source

\* the structural keys of a notebook document besides "cells"; kernelspec
\* and language_info are keys of metadata
StructFields ==
    {"metadata", "kernelspec", "language_info", "nbformat", "nbformat_minor"}

\* load_existing_notebook, for a file that holds a dict with a list
\* "cells": the document in memory, with the missing keys filled in, and
\* whether "Repaired notebook structure" was written to the log
load_existing_notebook(cells, fields) ==
    [cells |-> cells, fields |-> StructFields, changed |-> fields # StructFields]

InitNotebook ==
    /\ \E t \in {1}, st \in {"open", "closed"}, b \in 1..Len(NbParentBodies),
          cfg \in NbConfigs, ex \in BOOLEAN,
          cells \in SeqsUpTo(CellAlphabet, MaxCells) :
          /\ ~ex => cells = <<>>
          /\ nb = [title |-> NbTitles[t], state |-> st, body |-> b, cfg |-> cfg,
                   exists |-> ex, cells |-> cells, base |-> cells,
                   report |-> "", wrote |-> FALSE, changed |-> FALSE,
                   fields |-> IF ex THEN StructFields ELSE {},
                   fields0 |-> IF ex THEN StructFields ELSE {},
                   repaired |-> FALSE]
    /\ td = TdIdle
    /\ cl = ClIdle
    /\ sy = SyIdle
    /\ ol = OlIdle
    /\ pg = PgIdle
    /\ ca = CaIdle
    /\ nl = NlIdle
    /\ rw = RwIdle
    /\ an = AnIdle

\* main lines 346-357: the notebook exists and OVERWRITE is not set
NbMergePass ==
    /\ nb.exists /\ nb.cfg # "overwrite"
    /\ \E seed \in Uuids :
        LET child_issues == FetchChildren(extract_child_numbers(NbParent.body))
            existing_nb == load_existing_notebook(nb.cells, nb.fields)
            c1 == update_header_cell(existing_nb.cells, NbParent,
                                     nb.cfg = "refresh", seed)
            added_ids == ensure_cell_ids_changed(c1)
            c2 == ensure_cell_ids(c1, seed)
            added_sections == Len(to_add_of(c2, child_issues))
            c3 == append_new_subissue_sections(c2, child_issues,
                                               nb.cfg = "placeholders", seed)
            nochange == added_ids = 0 /\ added_sections = 0
            wrote == ~nochange /\ nb.cfg # "dry_run"
        IN nb' = [nb EXCEPT
                    !.changed = ContentDiffers(nb.cells, c3),
                    !.report = IF nochange THEN "NO-CHANGE" ELSE "UPDATED",
                    !.wrote = wrote,
                    !.fields0 = nb.fields,
                    !.repaired = existing_nb.changed,
                    !.fields = IF wrote THEN existing_nb.fields ELSE nb.fields,
                    !.cells = IF wrote THEN c3 ELSE nb.cells]
    /\ UNCHANGED <<titleVars, clVars, syVars, olVars, pgVars, caVars, nlVars, rwVars, anVars>>

\* main lines 341-344 and 358-361: OVERWRITE=1, or no notebook yet
NbBuildPass ==
    /\ ~nb.exists \/ nb.cfg = "overwrite"
    /\ \E seed \in Uuids :
        LET child_issues == FetchChildren(extract_child_numbers(NbParent.body))
            built == build_notebook_json(NbParent, child_issues,
                                         nb.cfg = "placeholders", seed)
            wrote == nb.cfg # "dry_run"
        IN nb' = [nb EXCEPT
                    !.changed = ContentDiffers(nb.cells, built),
                    !.report = IF nb.exists THEN "REGENERATED" ELSE "CREATED",
                    !.wrote = wrote,
                    !.fields0 = nb.fields,
                    !.repaired = FALSE,
                    !.fields = IF wrote THEN StructFields ELSE nb.fields,
                    !.cells = IF wrote THEN built ELSE nb.cells,
                    !.base = IF wrote THEN built ELSE nb.base,
                    !.exists = nb.exists \/ wrote]
    /\ UNCHANGED <<titleVars, clVars, syVars, olVars, pgVars, caVars, nlVars, rwVars, anVars>>

\* the tracker between two passes: the parent is renamed, closed, or gets
\* one more child in its checklist
NbRename ==
    /\ nb.title = NbTitles[1]
    /\ nb' = [nb EXCEPT !.title = NbTitles[2]]
    /\ UNCHANGED <<titleVars, clVars, syVars, olVars, pgVars, caVars, nlVars, rwVars, anVars>>

NbClose ==
    /\ nb.state = "open"
    /\ nb' = [nb EXCEPT !.state = "closed"]
    /\ UNCHANGED <<titleVars, clVars, syVars, olVars, pgVars, caVars, nlVars, rwVars, anVars>>

NbAddChild ==
    /\ nb.body \in {1, 2}
    /\ nb' = [nb EXCEPT !.body = nb.body + 1]
    /\ UNCHANGED <<titleVars, clVars, syVars, olVars, pgVars, caVars, nlVars, rwVars, anVars>>

NextNotebook ==
    \/ NbMergePass
    \/ NbBuildPass
    \/ NbRename
    \/ NbClose
    \/ NbAddChild

SpecNotebook == InitNotebook /\ [][NextNotebook]_vars

\* SpecRepair: the same passes over a stored notebook that an earlier
\* version of the script wrote with structural keys missing
StructVariants ==
    { StructFields,
      {},
      {"nbformat", "nbformat_minor"},
      {"metadata", "nbformat", "nbformat_minor"},
      {"metadata", "kernelspec", "language_info"},
      {"metadata", "kernelspec", "language_info", "nbformat"} }

\* stored cells: as the builder wrote them for the parent without children
\* (all with ids), the same followed by a user cell without id, and a
\* single user cell
RepairCells ==
    { build_notebook_json([number |-> 1, title |-> NbTitles[1],
                           state |-> "open", body |-> <<>>],
                          <<>>, FALSE, "u1"),
      Append(build_notebook_json([number |-> 1, title |-> NbTitles[1],
                                  state |-> "open", body |-> <<>>],
                                 <<>>, FALSE, "u1"),
             md_cell(<<TextLine(<<"my notes">>, FALSE)>>, <<>>)),
      << md_cell(<<TextLine(<<"my notes">>, FALSE)>>, <<"old">>) >> }

InitRepair ==
    /\ \E b \in {1, 2}, cfg \in {"default", "overwrite", "dry_run"},
          cells \in RepairCells, fs \in StructVariants :
          nb = [title |-> NbTitles[1], state |-> "open", body |-> b,
                cfg |-> cfg, exists |-> TRUE, cells |-> cells, base |-> cells,
                report |-> "", wrote |-> FALSE, changed |-> FALSE,
                fields |-> fs, fields0 |-> fs, repaired |-> FALSE]
    /\ td = TdIdle
    /\ cl = ClIdle
    /\ sy = SyIdle
    /\ ol = OlIdle
    /\ pg = PgIdle
    /\ ca = CaIdle
    /\ nl = NlIdle
    /\ rw = RwIdle
    /\ an = AnIdle

SpecRepair == InitRepair /\ [][NextNotebook]_vars

\* C33: after a merge pass (not a dry run) over a stored document that
\* lacked structural keys, the repair was reported, the stored document
\* holds all the keys, and the repair itself changed no cell.
C33_RepairStored ==
    /\ load_existing_notebook(nb.cells, nb.fields).cells = nb.cells
    /\ (nb.report \in {"NO-CHANGE", "UPDATED"} /\ nb.cfg # "dry_run"
        /\ nb.fields0 # StructFields) =>
           /\ nb.repaired
           /\ nb.fields = StructFields

\* C5: without OVERWRITE, the cells of the document at the start (or as
\* first built) stay, in their order, the first cells of the stored document
\* after any number of merges: none is deleted or moved, cells are only
\* appended (the first cell's content and a missing id may be filled in).
C5_AppendOnly ==
    nb.cfg # "overwrite" =>
        /\ Len(nb.cells) >= Len(nb.base)
        /\ \A i \in 1..Len(nb.base) :
              /\ nb.cells[i].cell_type = nb.base[i].cell_type
              /\ i > 1 => nb.cells[i].source = nb.base[i].source
              /\ nb.base[i].id # <<>> => nb.cells[i].id = nb.base[i].id

\* a merge wrote a document that grew, after two cells of which the second
\* is a user's code cell
C5_Witness ==
    /\ nb.cfg # "overwrite"
    /\ nb.report = "UPDATED" /\ nb.wrote
    /\ Len(nb.base) = 2 /\ nb.base[2].cell_type = "code"
    /\ Len(nb.cells) > Len(nb.base)

\* the generated header: a markdown cell with the "Parent Issue:" line
IsHeaderCell(c) ==
    /\ c.cell_type = "markdown"
    /\ \E j \in 1..Len(c.source) : c.source[j].k = "plink"

\* C6: without OVERWRITE, every cell of the document other than the Header
\* cell keeps its content, wherever it stands (the first cell included).
C6_NonHeaderContentKept ==
    nb.cfg # "overwrite" =>
        \A i \in 1..Len(nb.base) :
            ~IsHeaderCell(nb.base[i]) =>
                /\ i <= Len(nb.cells)
                /\ nb.cells[i].source = nb.base[i].source

\* C10: a merge pass that computed a document with more cells or with
\* changed content is not reported NO-CHANGE (it is reported UPDATED and
\* written).
C10_NoChangeMeansNoChange ==
    nb.report = "NO-CHANGE" => ~nb.changed

\* the content of a cell, line terminators aside
CellContent(c) == [i \in 1..Len(c.source) |-> [c.source[i] EXCEPT !.ws = FALSE]]

\* C11: a merge pass over a document that begins with the Header cell leaves,
\* in the stored document, a Header cell whose content is the header
\* computed from the parent issue (title, parent link, status).
C11_HeaderStoredAsDesired ==
    [][(NbMergePass /\ nb.cfg # "dry_run" /\ nb.cells # <<>>
        /\ IsHeaderCell(nb.cells[1]))
       => CellContent(nb'.cells[1]) = desired_header(NbParent)]_vars

RECURSIVE SectionNums(_)
\* the child numbers of the section headings of some cells, in cell order
SectionNums(cells) ==
    IF cells = <<>> THEN <<>>
    ELSE LET c == Head(cells)
             hs == {j \in 1..Len(c.source) : c.source[j].k = "subheading"}
         IN (IF c.cell_type = "markdown" /\ hs # {}
             THEN <<c.source[CHOOSE j \in hs : \A h \in hs : j <= h].num>>
             ELSE <<>>)
            \o SectionNums(Tail(cells))

\* C12: the sections a merge pass appends are those of the children of the
\* list that had no "### Sub-issue #<n>:" heading in the document the pass
\* started from, no others, in the order of the list.
C12_SectionsForMissingChildren ==
    [][(NbMergePass /\ nb.cfg # "dry_run") =>
        LET child_nums == extract_child_numbers(NbParent.body)
            appended == SectionNums(SubSeq(nb'.cells, Len(nb.cells) + 1,
                                           Len(nb'.cells)))
        IN /\ Range(appended) =
                Range(child_nums) \ extract_existing_subissue_numbers(nb.cells)
           /\ IsSubseq(appended, child_nums)]_vars

\* the document build_notebook_json gives for the parent and its children
\* as they are now, the cell ids drawn from seed
BuiltNow(seed) ==
    build_notebook_json(NbParent,
                        FetchChildren(extract_child_numbers(NbParent.body)),
                        nb.cfg = "placeholders", seed)

\* C25: a construction over a stored document that is itself a
\* construction from the same parent and children stores an equal document
C25_BuilderDeterministic ==
    [][(NbBuildPass /\ nb.cfg # "dry_run"
        /\ \E seed \in Uuids : nb.cells = BuiltNow(seed))
       => nb'.cells = nb.cells]_vars

\* C34: the numbers the sentinel scan finds in a document the builder
\* just wrote are the numbers of the children the builder was given, and
\* a merge of that document with the same children has no section to add.
C34_BuilderMergeRoundTrip ==
    [][(NbBuildPass /\ nb.cfg # "dry_run") =>
         LET child_nums == extract_child_numbers(NbParent.body)
         IN /\ extract_existing_subissue_numbers(nb'.cells) = Range(child_nums)
            /\ \A seed \in Uuids :
                  to_add_of(ensure_cell_ids(
                                update_header_cell(nb'.cells, NbParent,
                                                   nb.cfg = "refresh", seed),
                                seed),
                            FetchChildren(child_nums)) = <<>>]_vars

\* no two cells of the document hold the section heading of one child
OneSectionPerChild(cells) ==
    LET nums == SectionNums(cells)
    IN \A i, j \in 1..Len(nums) : i # j => nums[i] # nums[j]

\* C36: a builder or merge pass over a stored document with at most one
\* section per child (or over none) stores a document with at most one
\* section per child, whatever list the parent's checklist gives.
C36_OneSectionPerChild ==
    [][((NbBuildPass \/ NbMergePass) /\ OneSectionPerChild(nb.cells))
         => OneSectionPerChild(nb'.cells)]_vars

---------------------------------------------------------------------------
(* SyncEngine: main of step4_full_run (every issue of the project is a     *)
(* parent), of step3_create_subissues (the one parent given) and of        *)
(* ai-decompose (the project's issues titled "Story:..."), run several     *)
(* times in a row against one tracker.                                     *)

MaxRuns == 2
MaxFailures == 1

\* ai-decompose STORY_PREFIX
StoryColon == "Story:"
StoryTitle == <<StoryColon, " S">>

\* what the decomposition service returns for the story (issue 1): raw task
\* titles, with a repeated title and a title that carries the prefix
SyncTaskLists ==
    { <<>>,
      << <<"A">> >>,
      << <<"A">>, <<"B">> >>,
      << <<"A">>, <<"A">> >>,
      << RenderedPrefix(1) \o <<"A">>, <<"A">> >> }
\* what it returns for any other issue
ChildTaskLists == { <<>>, << <<"B">> >> }

\* call_gpt / read_tasks_from_stdin / decompose_story_with_gpt: the same
\* list whenever it is asked about the same issue
tasks_for(n) == IF n = 1 THEN sy.desc ELSE sy.cdesc

\* list_repo_issues, existing_issue_titles: the titles in the tracker
Titles(issues) == {issues[i].title : i \in 1..Len(issues)}

\* the parents a run goes through, by number
ParentsOf(scr, issues) ==
    LET inProject == SelectSeq([i \in 1..Len(issues) |-> i],
                               LAMBDA i : issues[i].inProject)
    IN CASE scr = "step4" -> inProject
         [] scr = "step3" -> <<1>>
         [] scr = "ai" ->
              SelectSeq(inProject,
                        LAMBDA i : startswith(issues[i].title, <<StoryColon>>))

\* step4 existing_subissue_titles_for, step3 existing_subissue_titles:
\* the listed titles that match ^Story #<parent> -
existing_subissue_titles_for(parent_number, repo_issues) ==
    {t \in repo_issues : startswith(t, RenderedPrefix(parent_number))}

\* parent_has_any_subissue that says yes for every parent
parent_has_any_subissue_always(parent_number, repo_issues) == TRUE

\* step4 parent_has_any_subissue: a listed title matches ^Story #<parent> -
parent_has_any_subissue(parent_number, repo_issues) ==
    \E t \in repo_issues : startswith(t, RenderedPrefix(parent_number))

\* step4 process_parent line 365: the parent is left at once
Skips(pnum) ==
    /\ sy.script = "step4"
    /\ sy.skip_if
    /\ parent_has_any_subissue(pnum, sy.repo)

\* the "already exists" test of the descriptor loop
InExisting(scr, sub_title, pnum, repo_issues) ==
    IF scr = "ai" THEN sub_title \in repo_issues
    ELSE sub_title \in existing_subissue_titles_for(pnum, repo_issues)

\* the backreference marker line "PARENT-STORY: #<pnum>"
MarkerLine(pnum) == TextLine(<<"PARENT-STORY: #", ToString(pnum)>>, FALSE)

\* the description texts of the descriptors, as lines: none, a sentence,
\* and a text that quotes the marker of the story
Descriptions ==
    { <<>>,
      << TextLine(<<"do it">>, FALSE) >>,
      << TextLine(<<"as in">>, FALSE), MarkerLine(1) >> }

\* the body a child is created with
ChildBody(scr, pnum, parent_title, description) ==
    IF scr = "ai"
    THEN rstrip(<< TextLine(<<"Derived from Story #", ToString(pnum), ": ">>
                            \o parent_title, FALSE),
                   BlankLine(FALSE),
                   MarkerLine(pnum),
                   BlankLine(FALSE) >> \o description)
    ELSE rstrip(<< TextLine(<<"Derived from parent Story #", ToString(pnum),
                              ": ">> \o parent_title, FALSE),
                   MarkerLine(pnum),
                   BlankLine(FALSE) >>
                \o (IF description = <<>>
                    THEN << TextLine(<<"(no description provided)">>, FALSE) >>
                    ELSE description))

\* the tracker at the start: the story alone, or the story with a child "A"
\* of an earlier run that its checklist references
SyncTrackers ==
    { << [title |-> StoryTitle, body |-> <<>>, inProject |-> TRUE] >>,
      << [title |-> StoryTitle,
          body |-> << HeaderLine(<<"### Sub-issues">>),
                      CheckLine(" ", 2, <<EmDash>> \o RenderedPrefix(1)
                                           \o <<"A">>, FALSE) >>,
          inProject |-> TRUE],
         [title |-> RenderedPrefix(1) \o <<"A">>,
          body |-> ChildBody("step4", 1, StoryTitle, <<>>),
          inProject |-> TRUE] >> }

InitSync ==
    /\ \E scr \in Scripts, dry \in BOOLEAN, pre \in Prefixes,
          d \in SyncTaskLists, cd \in ChildTaskLists, tr \in SyncTrackers,
          ds \in Descriptions, skip \in BOOLEAN :
          /\ scr # "step4" => pre = DefaultPrefix /\ cd = <<>> /\ ~skip
          /\ ds # <<>> => /\ d \in { << <<"A">> >>, << <<"A">>, <<"B">> >> }
                          /\ cd = <<>> /\ pre = DefaultPrefix /\ ~skip
          /\ sy = [SyIdle EXCEPT
                     !.script = scr, !.dry_run = dry, !.prefix = pre,
                     !.desc = d, !.cdesc = cd, !.issues = tr,
                     !.description = ds, !.skip_if = skip]
    /\ td = TdIdle
    /\ cl = ClIdle
    /\ nb = NbIdle
    /\ ol = OlIdle
    /\ pg = PgIdle
    /\ ca = CaIdle
    /\ nl = NlIdle
    /\ rw = RwIdle
    /\ an = AnIdle

\* the phases a parent went through, with the phase p entered
Enter(ph, p) == IF ph # <<>> /\ ph[Len(ph)] = p THEN ph ELSE Append(ph, p)

\* the start of main, up to the loop over the parents
StartRun ==
    /\ sy.pc \in {"idle", "done", "aborted"}
    /\ sy.run < MaxRuns
    /\ \E ok \in BOOLEAN :
          /\ ~ok => sy.fails < MaxFailures
          /\ LET parents == ParentsOf(sy.script, sy.issues)
                 s0 == [sy EXCEPT
                          !.run = sy.run + 1, !.log = {}, !.pidx = 1,
                          !.n0 = Len(sy.issues), !.f0 = sy.fails,
                          !.tidx = 1, !.created_numbers = <<>>,
                          !.created = 0, !.skipped = 0,
                          !.last = SyIdle.last, !.orphans = {},
                          !.passed = <<>>, !.handed = FALSE,
                          !.ph = <<>>, !.wrote = FALSE, !.looked = {}]
             IN sy' = IF ok
                      THEN [s0 EXCEPT
                              !.parents = parents,
                              !.repo = Titles(sy.issues),
                              !.abort_at = "",
                              !.pc = IF parents = <<>> THEN "done" ELSE "tasks"]
                      ELSE [s0 EXCEPT
                              !.parents = <<>>, !.pc = "aborted",
                              !.abort_at = "start",
                              !.fails = sy.fails + 1]
    /\ UNCHANGED <<titleVars, clVars, nbVars, olVars, pgVars, caVars, nlVars, rwVars, anVars>>

\* create_issue that sends the request under DRY_RUN too
create_issue_sent(dry_run, number) ==
    [number |-> number, calls |-> {"create"}]

\* create_issue: the number of the response and the mutating calls made;
\* under DRY_RUN the number is -1 and nothing is sent
create_issue(dry_run, number) ==
    IF dry_run THEN [number |-> -1, calls |-> {}]
    ELSE [number |-> number, calls |-> {"create"}]

\* the recording of a created number that does not look at DRY_RUN
record_number_always(scr, dry_run, created_numbers, number) ==
    Append(created_numbers, number)

\* created_numbers after a child was created: step3 and step4 append the
\* number under "if not DRY_RUN", ai-decompose under
\* 'if issue["number"] != -1'
record_number(scr, dry_run, created_numbers, number) ==
    IF scr = "ai"
    THEN IF number # -1 THEN Append(created_numbers, number)
         ELSE created_numbers
    ELSE IF ~dry_run THEN Append(created_numbers, number)
         ELSE created_numbers

\* the numbers fetch_issue_node_id is called with for a created child:
\* step3 and step4 call it under "if not DRY_RUN", ai-decompose takes the
\* node id from the response of create_issue
node_id_lookups(scr, dry_run, number) ==
    IF scr # "ai" /\ ~dry_run THEN {number} ELSE {}

\* add_to_project: the mutating calls made
add_to_project(dry_run) == IF dry_run THEN {} ELSE {"project"}

\* how the calls made for one new child can end; ai-decompose takes the
\* node id from the create response, the others fetch it
CreateOutcomes(scr) ==
    IF scr = "ai" THEN {"ok", "create_failed", "add_failed"}
    ELSE {"ok", "create_failed", "node_id_failed", "add_failed"}

\* one turn of the loop over the descriptors of the current parent
ProcessTask ==
    /\ sy.pc = "tasks"
    /\ sy.tidx <= Len(tasks_for(sy.parents[sy.pidx]))
    /\ ~Skips(sy.parents[sy.pidx])
    /\ LET pnum == sy.parents[sy.pidx]
           title == tasks_for(pnum)[sy.tidx]
           sub_title == DeriveChildTitle(sy.script, sy.prefix, pnum, title)
           existed == sub_title \in Titles(sy.issues)
           number == Len(sy.issues) + 1
           issue == create_issue(sy.dry_run, number)
           child(inProject) ==
               [title |-> sub_title,
                body |-> ChildBody(sy.script, pnum, sy.issues[pnum].title,
                                   sy.description),
                inProject |-> inProject]
           seen(act, num) == [seen |-> TRUE, existed |-> existed, act |-> act,
                              number |-> num]
           s0 == [sy EXCEPT
                    !.tidx = sy.tidx + 1,
                    !.orphans = IF sy.tidx = 1 THEN {} ELSE sy.orphans,
                    !.passed = IF sy.tidx = 1 THEN <<>> ELSE sy.passed,
                    !.handed = IF sy.tidx = 1 THEN FALSE ELSE sy.handed,
                    !.ph = Enter(IF sy.tidx = 1 THEN <<"decomposed">>
                                 ELSE sy.ph, "children-created"),
                    !.wrote = IF sy.tidx = 1 THEN FALSE ELSE sy.wrote]
           \* ai-decompose line 352: existing_titles.add(sub_title)
           repo1 == IF sy.script = "ai" THEN sy.repo \cup {sub_title}
                    ELSE sy.repo
       IN IF InExisting(sy.script, sub_title, pnum, sy.repo)
          THEN sy' = [s0 EXCEPT !.skipped = sy.skipped + 1,
                                !.last = seen("skip", 0)]
          ELSE IF sy.dry_run
          THEN \* nothing is recorded: step3 330, step4 399, ai 354
               sy' = [s0 EXCEPT !.created = sy.created + 1,
                                !.repo = repo1,
                                !.created_numbers =
                                    record_number(sy.script, sy.dry_run,
                                                  sy.created_numbers,
                                                  issue.number),
                                !.looked = sy.looked \cup
                                    node_id_lookups(sy.script, sy.dry_run,
                                                    issue.number),
                                !.log = sy.log \cup issue.calls
                                          \cup add_to_project(sy.dry_run),
                                !.wrote = s0.wrote
                                          \/ issue.calls
                                               \cup add_to_project(sy.dry_run)
                                             # {},
                                !.last = seen("create", issue.number)]
          ELSE \E outcome \in CreateOutcomes(sy.script) :
                 /\ outcome # "ok" => sy.fails < MaxFailures
                 /\ LET s1 == [s0 EXCEPT
                                 !.last = seen("create", issue.number),
                                 !.fails = IF outcome = "ok" THEN sy.fails
                                           ELSE sy.fails + 1]
                        \* the exception is not caught in ai-decompose
                        stop(s) == IF sy.script = "ai"
                                   THEN [s EXCEPT !.pc = "aborted",
                                                  !.abort_at = "task",
                                                  !.tidx = sy.tidx]
                                   ELSE s
                    IN sy' =
                         CASE outcome = "ok" ->
                                [s1 EXCEPT
                                   !.issues = Append(sy.issues, child(TRUE)),
                                   !.log = sy.log \cup issue.calls
                                             \cup add_to_project(sy.dry_run),
                                   !.wrote = s0.wrote
                                             \/ issue.calls
                                                  \cup add_to_project(sy.dry_run)
                                                # {},
                                   !.created_numbers =
                                       record_number(sy.script, sy.dry_run,
                                                     sy.created_numbers,
                                                     issue.number),
                                   !.looked = sy.looked \cup
                                       node_id_lookups(sy.script, sy.dry_run,
                                                       issue.number),
                                   !.created = sy.created + 1,
                                   !.repo = repo1]
                           [] outcome = "create_failed" -> stop(s1)
                           [] OTHER ->
                                stop([s1 EXCEPT
                                        !.issues = Append(sy.issues, child(FALSE)),
                                        !.log = sy.log \cup issue.calls,
                                        !.wrote = s0.wrote \/ issue.calls # {},
                                        !.looked = sy.looked \cup
                                            node_id_lookups(sy.script,
                                                            sy.dry_run,
                                                            issue.number),
                                        !.orphans = s0.orphans \cup {number}])
    /\ UNCHANGED <<titleVars, clVars, nbVars, olVars, pgVars, caVars, nlVars, rwVars, anVars>>

Failed(ok) == IF ok THEN 0 ELSE 1

\* the end of the current parent: the checklist update, then (step4) the
\* refresh of the listed issues, then the next parent
FinishParent ==
    /\ sy.pc = "tasks"
    /\ \/ sy.tidx > Len(tasks_for(sy.parents[sy.pidx]))
       \/ Skips(sy.parents[sy.pidx])
    /\ LET pnum == sy.parents[sy.pidx]
           skips == Skips(pnum)
           \* step4 line 378, ai line 334: without tasks the parent is left
           called == /\ ~skips
                     /\ tasks_for(pnum) # <<>> \/ sy.script = "step3"
           ph0 == IF skips THEN <<"skipped-has-children">>
                  ELSE IF tasks_for(pnum) = <<>> THEN <<"no-tasks-produced">>
                  ELSE Enter(sy.ph, "checklist-updated")
           wrote0 == IF sy.tidx = 1 THEN FALSE ELSE sy.wrote
           body == sy.issues[pnum].body
           fetches == called /\ sy.created_numbers # <<>>
           updates == fetches
                      /\ append_checklist_updates(body, sy.created_numbers)
           refreshes == sy.script = "step4" /\ ~sy.dry_run
       IN \E get_ok, titles_ok, patch_ok, refresh_ok \in BOOLEAN :
            /\ ~fetches => get_ok
            /\ ~(updates /\ get_ok) => titles_ok /\ patch_ok
            /\ ~refreshes => refresh_ok
            /\ sy.fails + Failed(get_ok) + Failed(titles_ok)
                 + Failed(patch_ok) + Failed(refresh_ok) <= MaxFailures
            /\ LET title_of == [n \in 1..Len(sy.issues) |->
                                  IF titles_ok THEN sy.issues[n].title
                                  ELSE <<"(title unavailable)">>]
                   \* in ai-decompose a failed title fetch raises
                   sends == /\ updates /\ get_ok /\ patch_ok /\ ~sy.dry_run
                            /\ sy.script = "ai" => titles_ok
                   new_body == IF sends
                               THEN append_checklist(body, sy.created_numbers,
                                                     title_of, sy.dry_run)
                               ELSE body
                   more == sy.pidx < Len(sy.parents)
               IN sy' = [sy EXCEPT
                          !.issues[pnum].body = new_body,
                          !.log = IF sends THEN sy.log \cup {"body"} ELSE sy.log,
                          !.handed = called,
                          !.ph = Enter(ph0, "DONE"),
                          !.wrote = wrote0 \/ sends,
                          \* GET of the parent, then fetch_issue_title
                          \* for the numbers to add (not under DRY_RUN)
                          !.looked = sy.looked
                              \cup (IF fetches THEN {pnum} ELSE {})
                              \cup (IF updates /\ get_ok /\ ~sy.dry_run
                                    THEN Range(add_nums_of(body,
                                                   sy.created_numbers))
                                    ELSE {}),
                          !.passed = IF called THEN sy.created_numbers ELSE <<>>,
                          !.orphans = IF called THEN sy.orphans ELSE {},
                          !.created_numbers = <<>>,
                          !.created = 0,
                          !.skipped = 0,
                          !.fails = sy.fails + Failed(get_ok) + Failed(titles_ok)
                                      + Failed(patch_ok) + Failed(refresh_ok),
                          !.repo = IF refreshes /\ refresh_ok
                                   THEN Titles(sy.issues) ELSE sy.repo,
                          !.pidx = IF more /\ refresh_ok THEN sy.pidx + 1
                                   ELSE sy.pidx,
                          !.tidx = IF more /\ refresh_ok THEN 1 ELSE sy.tidx,
                          !.abort_at = IF refresh_ok THEN "" ELSE "refresh",
                          !.pc = IF ~refresh_ok THEN "aborted"
                                 ELSE IF more THEN "tasks" ELSE "done"]
    /\ UNCHANGED <<titleVars, clVars, nbVars, olVars, pgVars, caVars, nlVars, rwVars, anVars>>

\* the decomposition call for the current parent raises (step4 line 375,
\* ai-decompose line 333): neither process_parent nor main catches it
DecomposeFails ==
    /\ sy.pc = "tasks" /\ sy.tidx = 1
    /\ ~Skips(sy.parents[sy.pidx])
    /\ sy.script \in {"step4", "ai"}
    /\ sy.fails < MaxFailures
    /\ sy' = [sy EXCEPT !.pc = "aborted", !.abort_at = "decompose",
                        !.fails = sy.fails + 1,
                        !.ph = <<>>, !.wrote = FALSE]
    /\ UNCHANGED <<titleVars, clVars, nbVars, olVars, pgVars, caVars, nlVars, rwVars, anVars>>

NextSync == StartRun \/ ProcessTask \/ FinishParent \/ DecomposeFails

SpecSync == InitSync /\ [][NextSync]_vars

\* C1: the second of two runs in a row (no call failing, the service
\* returning the same lists) writes nothing to the tracker: no issue
\* created, none added to the project, no parent body updated.
C1_SecondRunWritesNothing ==
    (sy.run >= 2 /\ sy.fails = 0) => sy.log = {}

\* C2: a descriptor is skipped exactly when an issue with the derived title
\* exists in the tracker; otherwise the create call is made for it.
C2_SkippedIffTitleExists ==
    sy.last.seen => (sy.last.existed <=> sy.last.act = "skip")

\* C8: a failure on one descriptor never ends the batch, and the numbers
\* recorded as created are numbers of issues that were created.
C8_BatchNotAborted ==
    /\ sy.abort_at # "task"
    /\ Range(sy.created_numbers) \subseteq 1..Len(sy.issues)

\* C9: once the checklist update of a parent was called, the numbers it
\* was given include every child of the batch that was created and then
\* failed to be added to the project.
C9_OrphansPassedOn ==
    sy.handed => sy.orphans \subseteq Range(sy.passed)

---------------------------------------------------------------------------
(* Outline text (outline.md) and the two passes over it:                   *)
(* update_outline_links (OutlineLinker) and update_outline_progress        *)
(* (ProgressAnnotator).                                                    *)
(*                                                                         *)
(* A line is a record. For the first line of a task node                   *)
(*     P<id>["- [<mark>] <title or [title](url)> <annotation>  "           *)
(* id is the digit of the node identifier, gap says that more than one     *)
(* blank follows "]", linked that the title is a markdown link, url is the *)
(* number of the issue the link's github url ends in (0: no link), ann is  *)
(* <<>> or <<closed, total, percent>>, trail says that the line ends in    *)
(* exactly two blanks. The other kinds of line use k, and a click          *)
(* directive also id, url and title.                                       *)

OlLine(k, id, mark, gap, linked, title, url, ann, trail) ==
    [k |-> k, id |-> id, mark |-> mark, gap |-> gap, linked |-> linked,
     title |-> title, url |-> url, ann |-> ann, trail |-> trail]
NodeLine(id, mark, gap, linked, title, url, ann, trail) ==
    OlLine("node", id, mark, gap, linked, title, url, ann, trail)
\* "fence_open" ```mermaid, "fence_close" ```, "nbline" [[notebooks/..]]"],
\* "blank", "text"
PlainLine(k) == OlLine(k, 0, "", FALSE, FALSE, "", 0, <<>>, FALSE)
\* f'    click {node_id} "{url}" "{title}"'
ClickLine(id, url, title) ==
    OlLine("click", id, "", FALSE, FALSE, title, url, <<>>, FALSE)

\* update_lines first_line_pat: mark blank or x, no "[" right after "] ",
\* two blanks at the end
first_line_pat(line) ==
    /\ line.k = "node"
    /\ line.mark \in {" ", "x"}
    /\ ~line.linked \/ line.gap
    /\ line.trail

\* update_lines node_extract_pat: mark blank or x, then a link to a github
\* issue right after "] "
node_extract_pat(line) ==
    /\ line.k = "node"
    /\ line.mark \in {" ", "x"}
    /\ line.linked /\ ~line.gap
    /\ line.url > 0

\* issues_by_title.get(plain_title): the number of the issue, 0 for none.
\* The text of an unlinked node with an annotation is not a title alone.
IssueOfTitle(issues, line) ==
    LET hits == {n \in DOMAIN issues : issues[n].title = line.title}
    IN IF hits = {} \/ (~line.linked /\ line.ann # <<>>) THEN 0
       ELSE CHOOSE n \in hits : \A h \in hits : h <= n

\* update_lines lines 136-166: line i after the rewrite
LinkedLine(lines, i, issues) ==
    LET line == lines[i]
        n == IssueOfTitle(issues, line)
    IN IF first_line_pat(line) /\ i + 1 <= Len(lines)
          /\ lines[i + 1].k = "nbline" /\ n # 0
       THEN [line EXCEPT
               !.mark = IF issues[n].state = "closed" THEN "x" ELSE line.mark,
               !.gap = FALSE,
               !.linked = TRUE,
               !.url = IF line.linked THEN line.url ELSE n]
       ELSE line

\* the keys of node_click_map: the identifiers of the lines that match
\* node_extract_pat
ClickNodes(lines) ==
    {lines[i].id : i \in {j \in 1..Len(lines) : node_extract_pat(lines[j])}}

\* node_click_map[id]: the last matching line of that identifier wins
ClickFor(lines, id) ==
    LET at == {j \in 1..Len(lines) :
                 node_extract_pat(lines[j]) /\ lines[j].id = id}
        j == CHOOSE a \in at : \A b \in at : b <= a
    IN ClickLine(id, lines[j].url, lines[j].title)

RECURSIVE SortedClicks(_, _)
\* click_lines: one per key, for sorted(node_click_map.keys())
SortedClicks(lines, ids) ==
    IF ids = {} THEN <<>>
    ELSE LET least == CHOOSE a \in ids : \A b \in ids : a <= b
         IN <<ClickFor(lines, least)>> \o SortedClicks(lines, ids \ {least})

\* inject_click_directives that keeps the click lines of the block
inject_click_directives_kept(lines, node_ids) ==
    LET opens == {i \in 1..Len(lines) : lines[i].k = "fence_open"}
        start_idx == IF opens = {} THEN 0
                     ELSE CHOOSE i \in opens : \A j \in opens : i <= j
        closes == {i \in 1..Len(lines) :
                     start_idx # 0 /\ i > start_idx /\ lines[i].k = "fence_close"}
        end_idx == IF closes = {} THEN 0
                   ELSE CHOOSE i \in closes : \A j \in closes : i <= j
    IN IF node_ids = {} \/ start_idx = 0 \/ end_idx = 0 THEN lines
       ELSE SubSeq(lines, 1, end_idx - 1)
            \o SortedClicks(lines, node_ids)
            \o SubSeq(lines, end_idx, Len(lines))

\* inject_click_directives
inject_click_directives(lines, node_ids) ==
    LET opens == {i \in 1..Len(lines) : lines[i].k = "fence_open"}
        start_idx == IF opens = {} THEN 0
                     ELSE CHOOSE i \in opens : \A j \in opens : i <= j
        closes == {i \in 1..Len(lines) :
                     start_idx # 0 /\ i > start_idx /\ lines[i].k = "fence_close"}
        end_idx == IF closes = {} THEN 0
                   ELSE CHOOSE i \in closes : \A j \in closes : i <= j
    IN IF node_ids = {} \/ start_idx = 0 \/ end_idx = 0 THEN lines
       ELSE LET block == SubSeq(lines, start_idx + 1, end_idx - 1)
                filtered_block == SelectSeq(block, LAMBDA b : b.k # "click")
                spaced == IF filtered_block # <<>>
                             /\ filtered_block[Len(filtered_block)].k # "blank"
                          THEN Append(filtered_block, PlainLine("blank"))
                          ELSE filtered_block
            IN SubSeq(lines, 1, start_idx) \o spaced
               \o SortedClicks(lines, node_ids)
               \o SubSeq(lines, end_idx, Len(lines))

\* update_lines
update_lines(lines, issues) ==
    LET updated == [i \in 1..Len(lines) |-> LinkedLine(lines, i, issues)]
    IN inject_click_directives(updated, ClickNodes(updated))

\* update_outline_progress PARENT_LINK_LINE: mark blank or x, then a link
\* to a github issue right after "] "
PARENT_LINK_LINE(line) ==
    /\ line.k = "node"
    /\ line.mark \in {" ", "x"}
    /\ line.linked /\ ~line.gap
    /\ line.url > 0

\* mutant: the percentage is cut off, not rounded
py_floor_percent(num, den) == (100 * num) \div den

\* int(round(num / den * 100)) for den > 0: Python rounds a float to the
\* nearest integer, a tie to the even one
py_round_percent(num, den) ==
    LET q == (100 * num) \div den
        r == (100 * num) % den
    IN IF 2 * r < den THEN q
       ELSE IF 2 * r > den THEN q + 1
       ELSE IF q % 2 = 0 THEN q ELSE q + 1

RECURSIVE CountClosed(_, _)
\* the loop of compute_progress; states[n] is "closed", "open", or "absent"
\* when issue_map has no issue n
CountClosed(child_nums, states) ==
    IF child_nums = <<>> THEN 0
    ELSE (IF states[Head(child_nums)] = "closed" THEN 1 ELSE 0)
         + CountClosed(Tail(child_nums), states)

\* compute_progress: <<closed, total, percent>>
compute_progress(body, states) ==
    LET child_nums == extract_child_numbers(body)
        total == Len(child_nums)
        closed == CountClosed(child_nums, states)
    IN <<closed, total,
         IF total # 0 THEN py_round_percent(closed, total) ELSE 0>>

\* annotate_lines; issue_map[n] = [state, body], states as in
\* compute_progress
annotate_lines(lines, issue_map, states, include_zero) ==
    [i \in 1..Len(lines) |->
        LET line == lines[i]
        IN IF PARENT_LINK_LINE(line) /\ line.url \in DOMAIN issue_map
           THEN LET progress == compute_progress(issue_map[line.url].body, states)
                IN IF progress[2] > 0 \/ include_zero
                   THEN [line EXCEPT !.ann = progress]
                   ELSE line
           ELSE line]

---------------------------------------------------------------------------
(* SpecProgress: compute_progress applied to bounded parent bodies.        *)

MaxEntries == 7
ChildStates == {"closed", "open", "absent"}
\* what may stand before the checklist: nothing, a text line, a line whose
\* mark CHECKLIST_CHILD does not accept
ProgressPrefixes ==
    { <<>>, <<Notes>>, <<CheckLine("~", 3, <<>>, FALSE)>> }
ProgressEntries ==
    { CheckLine(" ", 2, <<EmDash, "T", "2">>, FALSE),
      CheckLine("X", 3, <<>>, FALSE) }

InitProgress ==
    /\ \E pre \in ProgressPrefixes, es \in SeqsUpTo(ProgressEntries, MaxEntries),
          st \in [2..3 -> ChildStates] :
          pg = [body |-> pre \o es, states |-> st, out |-> <<>>, done |-> FALSE]
    /\ td = TdIdle
    /\ cl = ClIdle
    /\ nb = NbIdle
    /\ sy = SyIdle
    /\ ol = OlIdle
    /\ ca = CaIdle
    /\ nl = NlIdle
    /\ rw = RwIdle
    /\ an = AnIdle

ComputeProgress ==
    /\ ~pg.done
    /\ pg' = [pg EXCEPT !.out = compute_progress(pg.body, pg.states),
                        !.done = TRUE]
    /\ UNCHANGED <<titleVars, clVars, nbVars, syVars, olVars, caVars, nlVars, rwVars, anVars>>

NextProgress == ComputeProgress

SpecProgress == InitProgress /\ [][NextProgress]_vars

\* the checklist entries of a body, counted one line at a time
EntryLines(body) == {i \in 1..Len(body) :
                       body[i].k = "check" /\ body[i].mark \in {" ", "x", "X"}}

\* C18: total is the number of checklist entries of the body, closed the
\* number of those whose child is closed in the tracker, percent the
\* integer nearest to closed/total*100 (0 when total = 0); so
\* 0 <= closed <= total, 0 <= percent <= 100, and 3 of 7 gives 43.
C18_ProgressTriple ==
    pg.done =>
        LET closed == pg.out[1]
            total == pg.out[2]
            percent == pg.out[3]
        IN /\ total = Cardinality(EntryLines(pg.body))
           /\ closed = Cardinality({i \in EntryLines(pg.body) :
                                      pg.states[pg.body[i].num] = "closed"})
           /\ 0 <= closed /\ closed <= total
           /\ 0 <= percent /\ percent <= 100
           /\ total = 0 => percent = 0
           /\ total > 0 =>
                /\ 2 * (100 * closed - percent * total) <= total
                /\ 2 * (percent * total - 100 * closed) <= total
           /\ (closed = 3 /\ total = 7) => percent = 43

\* 3 closed children among 7 entries were counted
C18_Witness ==
    pg.done /\ pg.out = <<3, 7, 43>>

---------------------------------------------------------------------------
(* SpecOutline: passes of update_outline_links and update_outline_progress *)
(* over one outline file, against a tracker that does not change.          *)

MaxNodes == 2

\* the issues of the project: [title, state, body]; the states of all issues
\* (3 and 4 are children)
OlTrackers ==
    << [issues |-> [n \in 1..2 |->
                      IF n = 1
                      THEN [title |-> "T1", state |-> "closed",
                            body |-> <<CheckLine("x", 3, <<>>, FALSE),
                                       CheckLine(" ", 4, <<>>, FALSE)>>]
                      ELSE [title |-> "T2", state |-> "open", body |-> <<>>]],
        states |-> [n \in 1..4 |-> IF n \in {1, 3} THEN "closed" ELSE "open"]],
       [issues |-> [n \in 1..2 |->
                      IF n = 1
                      THEN [title |-> "T1", state |-> "open", body |-> <<>>]
                      ELSE [title |-> "T2", state |-> "closed",
                            body |-> <<CheckLine("x", 3, <<>>, FALSE)>>]],
        states |-> [n \in 1..4 |-> IF n \in {2, 3} THEN "closed" ELSE "open"]] >>

OlIssues == OlTrackers[ol.tracker].issues
OlStates == OlTrackers[ol.tracker].states

\* the task nodes an outline may hold: the first line (its id is set by
\* the position), and whether the notebook line follows
NodeVariants ==
    { [first |-> NodeLine(0, " ", FALSE, FALSE, "T1", 0, <<>>, TRUE), nbline |-> TRUE],
      [first |-> NodeLine(0, "x", FALSE, FALSE, "T2", 0, <<>>, TRUE), nbline |-> TRUE],
      [first |-> NodeLine(0, " ", FALSE, FALSE, "T3", 0, <<>>, TRUE), nbline |-> TRUE],
      [first |-> NodeLine(0, " ", FALSE, TRUE, "T1", 1, <<>>, TRUE), nbline |-> TRUE],
      [first |-> NodeLine(0, "x", FALSE, TRUE, "T2", 2, <<1, 2, 50>>, TRUE), nbline |-> TRUE],
      [first |-> NodeLine(0, " ", TRUE, TRUE, "T1", 1, <<>>, TRUE), nbline |-> TRUE],
      [first |-> NodeLine(0, " ", FALSE, TRUE, "T3", 1, <<>>, TRUE), nbline |-> TRUE],
      [first |-> NodeLine(0, " ", FALSE, FALSE, "T1", 0, <<>>, TRUE), nbline |-> FALSE],
      [first |-> NodeLine(0, " ", FALSE, FALSE, "T1", 0, <<>>, FALSE), nbline |-> TRUE] }

RECURSIVE NodeLines(_, _, _)
\* the lines of the nodes vs; the k-th gets the identifier ids[k]
NodeLines(vs, ids, k) ==
    IF k > Len(vs) THEN <<>>
    ELSE <<[vs[k].first EXCEPT !.id = ids[k]]>>
         \o (IF vs[k].nbline THEN <<PlainLine("nbline")>> ELSE <<>>)
         \o NodeLines(vs, ids, k + 1)

\* what stands between the last node and the closing fence
OlTails ==
    { <<>>, <<PlainLine("blank")>>,
      <<PlainLine("blank"), ClickLine(1, 1, "T1")>> }

OutlineOf(vs, descending, tail) ==
    <<PlainLine("text"), PlainLine("fence_open")>>
    \o NodeLines(vs, [k \in 1..Len(vs) |->
                        IF descending THEN Len(vs) + 1 - k ELSE k], 1)
    \o tail
    \o <<PlainLine("fence_close"), PlainLine("text")>>

InitOutline ==
    /\ \E t \in 1..Len(OlTrackers), z \in BOOLEAN,
          vs \in SeqsUpTo(NodeVariants, MaxNodes) \ {<<>>},
          descending \in BOOLEAN, tail \in OlTails :
          ol = [tracker |-> t, include_zero |-> z,
                lines |-> OutlineOf(vs, descending, tail),
                prev |-> OutlineOf(vs, descending, tail), last |-> ""]
    /\ td = TdIdle
    /\ cl = ClIdle
    /\ nb = NbIdle
    /\ sy = SyIdle
    /\ pg = PgIdle
    /\ ca = CaIdle
    /\ nl = NlIdle
    /\ rw = RwIdle
    /\ an = AnIdle

\* update_outline_links main (DRY_RUN unset)
OlLinkPass ==
    /\ ol' = [ol EXCEPT !.prev = ol.lines,
                        !.lines = update_lines(ol.lines, OlIssues),
                        !.last = "link"]
    /\ UNCHANGED <<titleVars, clVars, nbVars, syVars, pgVars, caVars, nlVars, rwVars, anVars>>

\* update_outline_progress main (DRY_RUN unset)
OlAnnotatePass ==
    /\ ol' = [ol EXCEPT !.prev = ol.lines,
                        !.lines = annotate_lines(ol.lines, OlIssues, OlStates,
                                                 ol.include_zero),
                        !.last = "annotate"]
    /\ UNCHANGED <<titleVars, clVars, nbVars, syVars, pgVars, caVars, nlVars, rwVars, anVars>>

NextOutline == OlLinkPass \/ OlAnnotatePass

SpecOutline == InitOutline /\ [][NextOutline]_vars

\* the line of node id in lines
NodeById(lines, id) ==
    LET at == {j \in 1..Len(lines) : lines[j].k = "node" /\ lines[j].id = id}
    IN lines[CHOOSE j \in at : TRUE]

\* a task-node first line: id["- [<mark>] <titleOrLink>, two trailing spaces
IsTaskNode(line) ==
    line.k = "node" /\ line.mark \in {" ", "x"} /\ line.trail

\* the issues of the tracker whose title is the title of line
TitleMatches(line) == {n \in DOMAIN OlIssues : OlIssues[n].title = line.title}

\* C13: after a link pass every task node whose plain title was the title
\* of a closed issue is the linked node of that issue, checked
C13_ClosedTitleLinked ==
    ol.last = "link" =>
        \A i \in 1..Len(ol.prev) :
            LET line == ol.prev[i]
            IN (IsTaskNode(line) /\ ~line.linked /\ line.ann = <<>>) =>
                \A n \in TitleMatches(line) :
                    OlIssues[n].state = "closed" =>
                        NodeById(ol.lines, line.id)
                            = [line EXCEPT !.linked = TRUE, !.url = n,
                                           !.mark = "x"]

\* C14: after a link pass every node that was linked keeps its link, and
\* its mark is the state of the linked issue; the rest of its line is kept
C14_LinkedMarkRefreshed ==
    ol.last = "link" =>
        \A i \in 1..Len(ol.prev) :
            LET line == ol.prev[i]
            IN (IsTaskNode(line) /\ line.linked /\ ~line.gap
                /\ line.url \in DOMAIN OlIssues) =>
                NodeById(ol.lines, line.id)
                    = [line EXCEPT !.mark =
                         IF OlIssues[line.url].state = "closed"
                         THEN "x" ELSE " "]

\* C15: after a link pass the mark of every two-line task node whose plain
\* title is the title of an issue is the state of that issue alone
C15_MarkFromTrackerAlone ==
    ol.last = "link" =>
        \A i \in 1..Len(ol.prev) :
            LET line == ol.prev[i]
            IN (IsTaskNode(line) /\ ~line.linked /\ line.ann = <<>>
                /\ i + 1 <= Len(ol.prev) /\ ol.prev[i + 1].k = "nbline") =>
                \A n \in TitleMatches(line) :
                    NodeById(ol.lines, line.id).mark
                        = IF OlIssues[n].state = "closed" THEN "x" ELSE " "

RECURSIVE Ascending(_)
\* the elements of the set ids in ascending order
Ascending(ids) ==
    IF ids = {} THEN <<>>
    ELSE LET least == CHOOSE a \in ids : \A b \in ids : a <= b
         IN <<least>> \o Ascending(ids \ {least})

\* the identifiers of the linked task nodes of lines
ResolvedNodes(lines) ==
    {lines[i].id : i \in {j \in 1..Len(lines) :
                            lines[j].k = "node" /\ lines[j].linked}}

\* C16: after a link pass the click directives of the file all stand
\* inside the diagram block, one per linked node, in ascending order of
\* the node identifiers, each with the address and title of its node
C16_OneClickPerResolvedNode ==
    ol.last = "link" =>
        LET at == {i \in 1..Len(ol.lines) : ol.lines[i].k = "click"}
            clicks == SelectSeq(ol.lines, LAMBDA l : l.k = "click")
            ids == Ascending(ResolvedNodes(ol.lines))
        IN /\ Len(clicks) = Len(ids)
           /\ \A c \in 1..Len(clicks) :
                LET node == NodeById(ol.lines, ids[c])
                IN clicks[c] = ClickLine(ids[c], node.url, node.title)
           /\ \A i \in at :
                /\ \E o \in 1..(i - 1) : ol.lines[o].k = "fence_open"
                /\ \E c \in (i + 1)..Len(ol.lines) : ol.lines[c].k = "fence_close"

\* C17: the lines a link pass produced are a fixed point of update_lines
C17_LinkPassStable ==
    ol.last = "link" => update_lines(ol.lines, OlIssues) = ol.lines

\* C17: a link pass has linked a node and written its click directive
C17_Witness ==
    /\ ol.last = "link"
    /\ ol.lines # ol.prev
    /\ \E i \in 1..Len(ol.lines) :
         /\ ol.lines[i].k = "node" /\ ol.lines[i].linked
         /\ ~ol.prev[i].linked
    /\ \E i \in 1..Len(ol.lines) : ol.lines[i].k = "click"

\* C27: a task node whose first line is matched and that has no notebook
\* line is processed by the link pass like any other: when its plain title
\* is the title of an issue, it is linked afterwards
C27_NodeWithoutNotebookProcessed ==
    ol.last = "link" =>
        \A i \in 1..Len(ol.prev) :
            LET line == ol.prev[i]
            IN (first_line_pat(line) /\ ~line.linked /\ line.ann = <<>>
                /\ ~(i + 1 <= Len(ol.prev) /\ ol.prev[i + 1].k = "nbline")
                /\ TitleMatches(line) # {})
               => NodeById(ol.lines, line.id).linked

\* C19: after an annotate pass without INCLUDE_ZERO no linked node whose
\* issue lists no child carries an annotation
C19_NoAnnotationForZero ==
    (ol.last = "annotate" /\ ~ol.include_zero) =>
        \A i \in 1..Len(ol.prev) :
            LET line == ol.prev[i]
            IN (PARENT_LINK_LINE(line) /\ line.url \in DOMAIN OlIssues
                /\ compute_progress(OlIssues[line.url].body, OlStates)[2] = 0) =>
                ol.lines[i].ann = <<>>

\* a line that stands for an issue of the tracker: a node whose title is
\* the title of an issue, or whose link ends in the number of an issue
ResolvedToIssue(line) ==
    /\ line.k = "node"
    /\ \/ TitleMatches(line) # {}
       \/ line.linked /\ line.url \in DOMAIN OlIssues

\* the lines outside the fields the two passes update
FrameLines(lines) ==
    SelectSeq(lines, LAMBDA l : ~ResolvedToIssue(l) /\ l.k # "click")

C20_DryRunWritesNothing ==
    /\ [](sy.dry_run =>
            /\ sy.log = {}
            /\ sy.created_numbers = <<>>
            /\ sy.last.act = "create" => sy.last.number = -1)
    /\ [][sy.dry_run => sy'.issues = sy.issues]_vars

\* C20: a dry run went through the creation of a child that does not
\* exist and reached the checklist step of its parent
C20_Witness ==
    /\ sy.dry_run
    /\ sy.last.act = "create" /\ ~sy.last.existed
    /\ sy.last.number = -1
    /\ sy.handed
    /\ sy.pc = "done"

\* the number of backreference marker lines of a body
MarkerCount(body, pnum) ==
    Cardinality({i \in 1..Len(body) : body[i] = MarkerLine(pnum)})

PairwiseDistinct(s) ==
    \A i, j \in 1..Len(s) : i # j => s[i] # s[j]

\* the first run, from a tracker that held the story alone, went through
\* without a failed call; the descriptors have pairwise distinct titles
FirstRunDone ==
    /\ sy.run = 1 /\ sy.pc = "done" /\ sy.n0 = 1
    /\ sy.fails = 0 /\ ~sy.dry_run
    /\ PairwiseDistinct(sy.desc)

\* C21: after such a run the tracker holds the story and k children, the
\* i-th titled by the derivation from the i-th descriptor ("Story #1 - t"
\* under the default prefix), each body with the marker of the story, and
\* the checklist of the story is the k entries of the children in
\* descriptor order, each with the title of its child
C21_FirstRunResult ==
    FirstRunDone =>
        LET k == Len(sy.desc)
        IN /\ Len(sy.issues) = 1 + k
           /\ \A i \in 1..k :
                /\ sy.issues[1 + i].title
                     = DeriveChildTitle(sy.script, sy.prefix, 1, sy.desc[i])
                /\ (sy.prefix = DefaultPrefix
                    /\ ~sub_issue_title_has_prefix(sy.desc[i], 1))
                   => sy.issues[1 + i].title = RenderedPrefix(1) \o sy.desc[i]
                /\ MarkerCount(sy.issues[1 + i].body, 1) >= 1
           /\ ChecklistLines(sy.issues[1].body)
                = [i \in 1..k |->
                     CheckLine(" ", 1 + i,
                               <<EmDash>> \o sy.issues[1 + i].title, FALSE)]

\* C21: the first run of step4 created the children A and B of the story
C21_Witness ==
    /\ FirstRunDone
    /\ sy.script = "step4" /\ sy.prefix = DefaultPrefix
    /\ sy.desc = << <<"A">>, <<"B">> >>
    /\ Len(sy.issues) = 3

\* the issues of the tracker that a run created: those after the first
\* sy.n0 of the last run, and their parent
CreatedInRun == (sy.n0 + 1)..Len(sy.issues)
ParentOfCreated(i) ==
    CHOOSE p \in 1..Len(sy.issues) :
        sy.issues[i].body[1].text[2] = ToString(p)

\* C22: the body of every child created in the current run holds exactly
\* one marker line, the one of its parent
C22_ExactlyOneMarker ==
    sy.run >= 1 =>
        \A i \in CreatedInRun :
            /\ MarkerCount(sy.issues[i].body, ParentOfCreated(i)) = 1
            /\ \A p \in 1..Len(sy.issues) :
                 p # ParentOfCreated(i) => MarkerCount(sy.issues[i].body, p) = 0

\* C28: no two issues of the tracker have the same title, so there is at
\* most one issue per derived child title
C28_OneIssuePerChildTitle ==
    \A i, j \in 1..Len(sy.issues) :
        i # j => sy.issues[i].title # sy.issues[j].title

\* C29: once a second run has gone through without a failed call, every
\* child issue is referenced by the checklist of its parent, whatever
\* failed in the first run
C29_RecoveredOnRerun ==
    (sy.run = 2 /\ sy.pc = "done" /\ sy.fails = sy.f0) =>
        \A i \in 2..Len(sy.issues) :
            i \in extract_existing_child_numbers(
                     sy.issues[ParentOfCreated(i)].body)

\* C30: no run ends at a failed decomposition call or at a failed refresh
\* of the issue list while a parent is left to process
C30_ParentsBatchNotAborted ==
    sy.abort_at \in {"decompose", "refresh"} => sy.pidx = Len(sy.parents)

\* the numbers of the checklist entries of a body
EntryNumbers(body) ==
    {body[i].num : i \in {j \in 1..Len(body) : body[j].k = "check"}}

\* C40: in no run the number -1 that create_issue returns under DRY_RUN
\* is recorded as a created child, passed to append_checklist, entered in
\* the checklist of an issue, or used to look an issue up in the tracker
C40_SentinelNeverUsed ==
    /\ -1 \notin Range(sy.created_numbers)
    /\ -1 \notin Range(sy.passed)
    /\ -1 \notin sy.looked
    /\ \A i \in 1..Len(sy.issues) : -1 \notin EntryNumbers(sy.issues[i].body)

\* C40: a dry run got -1 from create_issue for a child that did not
\* exist, and the checklist step of the parent was called after it
C40_Witness ==
    /\ sy.dry_run /\ sy.run >= 1
    /\ sy.last.act = "create" /\ sy.last.number = -1
    /\ sy.handed /\ sy.passed = <<>>
    /\ sy.ph # <<>> /\ sy.ph[Len(sy.ph)] = "DONE"

\* C35: a descriptor whose derived title is the title of an issue that
\* was in the tracker when the run started (a child of an earlier run) is
\* skipped, whatever STORY_PREFIX is configured.
C35_PrefixAgreement ==
    (sy.pc = "tasks" /\ sy.tidx > 1) =>
        LET pnum == sy.parents[sy.pidx]
            sub_title == DeriveChildTitle(sy.script, sy.prefix, pnum,
                                          tasks_for(pnum)[sy.tidx - 1])
        IN sub_title \in {sy.issues[i].title : i \in 1..sy.n0}
             => sy.last.act = "skip"

\* the orders in which a parent goes through its phases in one run
PhaseOrders ==
    { <<"decomposed", "children-created", "checklist-updated", "DONE">>,
      <<"skipped-has-children", "DONE">>,
      <<"no-tasks-produced", "DONE">> }

IsPrefix(a, b) == Len(a) <= Len(b) /\ SubSeq(b, 1, Len(a)) = a

\* the parent the recorded phases belong to
PhaseParent ==
    IF sy.pc = "tasks" /\ sy.ph # <<>> /\ sy.ph[Len(sy.ph)] = "DONE"
    THEN sy.parents[sy.pidx - 1]
    ELSE sy.parents[sy.pidx]

---------------------------------------------------------------------------
(* SpecCache: the descriptor acquisition of step4 process_parent for one   *)
(* parent, run after run, with the cache file of that parent.              *)

MaxCacheRuns == 3

\* what call_gpt can answer: no task (also for a reply that does not
\* parse), or a list of task titles
ServiceAnswers == { <<>>, << <<"A">> >>, << <<"B">> >>, << <<"A">>, <<"B">> >> }

\* the cache file of the parent: none, or a list an earlier run stored
NoCache == [exists |-> FALSE, tasks |-> <<>>]
CacheFiles == { NoCache, [exists |-> TRUE, tasks |-> << <<"A">> >>] }

\* load_cached_tasks
load_cached_tasks(CACHE_TASKS, cache) ==
    IF ~CACHE_TASKS \/ ~cache.exists THEN <<>> ELSE cache.tasks

\* save_cached_tasks: the cache file after the call
save_cached_tasks(CACHE_TASKS, cache, tasks) ==
    IF ~CACHE_TASKS THEN cache ELSE [exists |-> TRUE, tasks |-> tasks]

InitCache ==
    /\ \E c \in CacheFiles : ca = [CaIdle EXCEPT !.cache = c, !.before = c]
    /\ td = TdIdle
    /\ cl = ClIdle
    /\ nb = NbIdle
    /\ sy = SyIdle
    /\ ol = OlIdle
    /\ pg = PgIdle
    /\ nl = NlIdle
    /\ rw = RwIdle
    /\ an = AnIdle

\* process_parent lines 369-380, under the settings of the run and with
\* the answer the service would give
AcquireTasks ==
    /\ ca.run < MaxCacheRuns
    /\ \E CACHE_TASKS, REGENERATE_TASKS \in BOOLEAN, answer \in ServiceAnswers :
          LET cached == IF CACHE_TASKS /\ ~REGENERATE_TASKS
                        THEN load_cached_tasks(CACHE_TASKS, ca.cache)
                        ELSE <<>>
              asks == cached = <<>>
              tasks == IF asks THEN answer ELSE cached
          IN ca' = [cache_tasks |-> CACHE_TASKS,
                    regenerate_tasks |-> REGENERATE_TASKS,
                    before |-> ca.cache,
                    cache |-> IF asks /\ tasks # <<>>
                              THEN save_cached_tasks(CACHE_TASKS, ca.cache, tasks)
                              ELSE ca.cache,
                    answer |-> answer,
                    tasks |-> tasks,
                    calls |-> IF asks THEN 1 ELSE 0,
                    run |-> ca.run + 1]
    /\ UNCHANGED <<titleVars, clVars, nbVars, syVars, olVars, pgVars, nlVars, rwVars, anVars>>

NextCache == AcquireTasks

SpecCache == InitCache /\ [][NextCache]_vars

\* C24: a run with caching on and regeneration not forced that finds a
\* cached list uses it and does not call the service; any other run calls
\* the service once, uses the answer and, with caching on, leaves the
\* cache such that a later load gives that answer
C24_DescriptorAcquisition ==
    ca.run > 0 =>
        IF ca.cache_tasks /\ ~ca.regenerate_tasks /\ ca.before.exists
        THEN ca.calls = 0 /\ ca.tasks = ca.before.tasks
        ELSE /\ ca.calls = 1
             /\ ca.tasks = ca.answer
             /\ ca.cache_tasks
                  => load_cached_tasks(TRUE, ca.cache) = ca.answer

---------------------------------------------------------------------------
(* SpecNbLink: update_issue_notebook_links for one outline node, that is   *)
(* one issue and the path of its notebook, run after run.                  *)
(* A body line is one of:                                                  *)
(*   "header"     a line whose strip() is NOTEBOOK_SECTION_HEADER          *)
(*   "link"       a line whose strip() is the link line of the path        *)
(*   "other_link" another line whose strip() starts with "- ["             *)
(*   "path_text"  any other line that holds the path                       *)
(*   "text", "blank"                                                       *)

MaxLinkBody == 3
MaxLinkRuns == 2

LinkBodyLines == {"header", "link", "other_link", "path_text", "text", "blank"}

\* notebook_path in body
path_present(body) ==
    \E i \in 1..Len(body) : body[i] \in {"link", "path_text"}

\* str.rstrip() of a body, then "\n": the blank lines at the end go
RECURSIVE rstrip_body(_)
rstrip_body(lines) ==
    IF lines # <<>> /\ lines[Len(lines)] = "blank"
    THEN rstrip_body(SubSeq(lines, 1, Len(lines) - 1))
    ELSE lines

RECURSIVE ScanLinks(_, _)
\* ensure_notebook_section lines 137-141: 0 when the link line stands under
\* the header, else the index where the scan of the "- [" lines ends
ScanLinks(lines, insert_at) ==
    IF insert_at <= Len(lines) /\ lines[insert_at] \in {"link", "other_link"}
    THEN IF lines[insert_at] = "link" THEN 0
         ELSE ScanLinks(lines, insert_at + 1)
    ELSE insert_at

\* ensure_notebook_section
ensure_notebook_section(body) ==
    LET header_indices == {i \in 1..Len(body) : body[i] = "header"}
    IN IF header_indices # {}
       THEN LET idx == CHOOSE i \in header_indices :
                          \A j \in header_indices : i <= j
                insert_at == ScanLinks(body, idx + 1)
            IN IF insert_at = 0 THEN body
               ELSE rstrip_body(SubSeq(body, 1, insert_at - 1) \o <<"link">>
                                \o SubSeq(body, insert_at, Len(body)))
       ELSE LET l1 == IF body # <<>> /\ body[Len(body)] # "blank"
                      THEN Append(body, "blank") ELSE body
            IN rstrip_body(l1 \o <<"header", "link">>)

InitNbLink ==
    /\ \E b \in SeqsUpTo(LinkBodyLines, MaxLinkBody), dry \in BOOLEAN :
          nl = [NlIdle EXCEPT !.dry_run = dry, !.body = b, !.before = b]
    /\ td = TdIdle
    /\ cl = ClIdle
    /\ nb = NbIdle
    /\ sy = SyIdle
    /\ ol = OlIdle
    /\ pg = PgIdle
    /\ ca = CaIdle
    /\ rw = RwIdle
    /\ an = AnIdle

\* main lines 162-177 for the node, the issue being fetched; patch_issue
\* sends nothing under DRY_RUN and can fail otherwise
NlPass ==
    /\ nl.calls < MaxLinkRuns
    /\ \E patch_ok \in BOOLEAN :
          LET new_body == ensure_notebook_section(nl.body)
              same == new_body = nl.body
              sends == ~same /\ ~nl.dry_run
          IN /\ ~sends => patch_ok
             /\ nl' = [nl EXCEPT
                         !.before = nl.body,
                         !.skipped = same,
                         !.sent = sends,
                         !.body = IF sends /\ patch_ok THEN new_body
                                  ELSE nl.body,
                         !.calls = nl.calls + 1]
    /\ UNCHANGED <<titleVars, clVars, nbVars, syVars, olVars, pgVars, caVars, rwVars, anVars>>

NextNbLink == NlPass

SpecNbLink == InitNbLink /\ [][NextNbLink]_vars

\* C26: a pass over an issue whose body holds the notebook path already
\* skips the issue: the body is left as it is and no update is sent
C26_SkippedWhenPathPresent ==
    (nl.calls > 0 /\ path_present(nl.before))
        => nl.skipped /\ ~nl.sent /\ nl.body = nl.before

---------------------------------------------------------------------------
(* SpecRace: the body of one parent in the tracker, two append_checklist   *)
(* calls (two sync runs, "a" and "b") that each read the body (GET) and    *)
(* later write it (PATCH), and an editor outside the sync engine (a        *)
(* person, or the PATCH of update_issue_notebook_links) that changes the   *)
(* body at any moment. With serial the passes and the edits do not         *)
(* overlap.                                                                *)

MaxEdits == 2
MaxPasses == 1

Passes == {"a", "b"}
RaceRequests == [a |-> { <<2>>, <<2, 3>> }, b |-> { <<3>> }]

\* the lines an editor appends: a remark, the section of the notebook pass
ExternalLines ==
    { TextLine(<<"note">>, FALSE), TextLine(<<"## Notebook">>, FALSE) }

RaceBodies ==
    { <<>>,
      << TextLine(<<"intro">>, FALSE) >>,
      << HeaderLine(<<"### Sub-issues">>),
         CheckLine(" ", 1, <<EmDash, "T", "1">>, FALSE) >> }

\* a PATCH that the tracker refuses when the body is not the one read
patch_body_guarded(tracker_body, read_body, new_body) ==
    IF tracker_body = read_body THEN new_body ELSE tracker_body

\* step4 append_checklist lines 340-341, update_issue_notebook_links
\* patch_issue: requests.patch with json={'body': new_body}; the body the
\* tracker holds afterwards
patch_body(tracker_body, read_body, new_body) == new_body

InBody(l, body) == \E i \in 1..Len(body) : body[i] = l

InitRace ==
    /\ \E ser \in BOOLEAN, b \in RaceBodies :
          rw = [RwIdle EXCEPT !.serial = ser, !.body = b]
    /\ td = TdIdle
    /\ cl = ClIdle
    /\ nb = NbIdle
    /\ sy = SyIdle
    /\ ol = OlIdle
    /\ pg = PgIdle
    /\ ca = CaIdle
    /\ nl = NlIdle
    /\ an = AnIdle

\* append_checklist lines 308-320: GET of the parent, and the return when
\* there is nothing to add
RwRead(p) ==
    /\ rw.pass[p].pc = "idle"
    /\ rw.pass[p].runs < MaxPasses
    /\ rw.serial => \A q \in Passes : rw.pass[q].pc = "idle"
    /\ \E nums \in RaceRequests[p] :
          rw' = [rw EXCEPT
                   !.pass[p] =
                       [pc |-> IF append_checklist_updates(rw.body, nums)
                               THEN "read" ELSE "idle",
                        local |-> rw.body,
                        req |-> nums,
                        runs |-> rw.pass[p].runs + 1]]
    /\ UNCHANGED <<titleVars, clVars, nbVars, syVars, olVars, pgVars, caVars,
                   nlVars, anVars>>

\* append_checklist lines 321-344: the new body from the body read, and
\* the PATCH
RwWrite(p) ==
    /\ rw.pass[p].pc = "read"
    /\ \E patch_ok \in BOOLEAN :
          LET local == rw.pass[p].local
              add_nums == add_nums_of(local, rw.pass[p].req)
              new_body == checklist_new_body(local, add_nums,
                              [n \in 1..3 |-> FetchedTitle(n, TRUE)])
          IN rw' = [rw EXCEPT
                      !.body = IF patch_ok
                               THEN patch_body(rw.body, local, new_body)
                               ELSE rw.body,
                      !.nums = IF patch_ok THEN rw.nums \cup Range(add_nums)
                               ELSE rw.nums,
                      !.pass[p].pc = "idle",
                      !.last = [by |-> p, stale |-> rw.body # local,
                                sent |-> patch_ok]]
    /\ UNCHANGED <<titleVars, clVars, nbVars, syVars, olVars, pgVars, caVars,
                   nlVars, anVars>>

\* an edit from outside: a line is appended, or an open entry is ticked
RwExternalEdit ==
    /\ rw.edits < MaxEdits
    /\ rw.serial => \A q \in Passes : rw.pass[q].pc = "idle"
    /\ \/ \E l \in ExternalLines :
             /\ ~InBody(l, rw.body)
             /\ rw' = [rw EXCEPT !.body = Append(rw.body, l),
                                 !.notes = rw.notes \cup {l},
                                 !.edits = rw.edits + 1]
       \/ \E i \in 1..Len(rw.body) :
             /\ rw.body[i].k = "check" /\ rw.body[i].mark = " "
             /\ rw' = [rw EXCEPT !.body[i].mark = "x",
                                 !.ticks = rw.ticks \cup {rw.body[i].num},
                                 !.edits = rw.edits + 1]
    /\ UNCHANGED <<titleVars, clVars, nbVars, syVars, olVars, pgVars, caVars,
                   nlVars, anVars>>

NextRace == (\E p \in Passes : RwRead(p)) \/ (\E p \in Passes : RwWrite(p))
            \/ RwExternalEdit

SpecRace == InitRace /\ [][NextRace]_vars

\* every update made so far is in the body: the lines and the ticks of the
\* editor, and the entries the merger passes have written
NoUpdateLost ==
    /\ \A l \in rw.notes : InBody(l, rw.body)
    /\ rw.nums \subseteq extract_existing_child_numbers(rw.body)
    /\ \A n \in rw.ticks :
          \E i \in 1..Len(rw.body) :
             /\ rw.body[i].k = "check" /\ rw.body[i].num = n
             /\ rw.body[i].mark = "x"

\* a PATCH of pass p that succeeds leaves the body computed from the body
\* the pass read, whatever the tracker held by then, and no line appended
\* since the read is in it
StaleWriteReplaces(p) ==
    (rw.pass[p].pc = "read" /\ rw'.pass[p].pc = "idle" /\ rw'.last.sent) =>
        /\ rw'.body = checklist_new_body(rw.pass[p].local,
                          add_nums_of(rw.pass[p].local, rw.pass[p].req),
                          [n \in 1..3 |-> FetchedTitle(n, TRUE)])
        /\ \A l \in rw.notes :
              ~InBody(l, rw.pass[p].local) => ~InBody(l, rw'.body)

\* C32: the write of append_checklist replaces the parent body with the
\* text computed from the body it read, also when the body was changed in
\* between (that change is lost, nothing is compared before the PATCH);
\* when the passes and edits on a parent do not overlap, no update is lost.
C32_UnguardedReadModifyWrite ==
    /\ [][\A p \in Passes : StaleWriteReplaces(p)]_vars
    /\ [](rw.serial => NoUpdateLost)

\* C32 witness: passes overlapped, a pass wrote from a body that was no
\* longer the tracker's, and an update made in between is gone
C32_Witness ==
    /\ ~rw.serial
    /\ rw.last.stale /\ rw.last.sent
    /\ ~NoUpdateLost

---------------------------------------------------------------------------
(* SpecAnnotate: annotate_lines on one node line that PARENT_LINK_LINE     *)
(* matches and whose issue has a progress to show, pass after pass with    *)
(* the tracker unchanged. Indent, mark, "] " and the link are copied from  *)
(* the groups of the match; the state holds the group "rest", the text     *)
(* after the link, as tokens:                                              *)
(*   "sp"   one blank                                                      *)
(*   "txt"  text without blanks that is no annotation                      *)
(*   "ann"  "(<closed>/<total> . <percent>%)", v its three numbers         *)

MaxRest == 4
MaxAnnotatePasses == 2

Sp == [k |-> "sp", v |-> <<>>]
Txt == [k |-> "txt", v |-> <<>>]
Ann(progress) == [k |-> "ann", v |-> progress]

RestTokens == {Sp, Txt, Ann(<<1, 2, 50>>)}
FreshProgress == { <<1, 2, 50>>, <<2, 2, 100>> }

RECURSIVE SubAnnotations(_)
\* PROGRESS_ANNOTATION.sub('', rest): every annotation goes, with the
\* blanks that stand right before it (\s* at the start of the pattern)
SubAnnotations(rest) ==
    IF rest = <<>> THEN <<>>
    ELSE LET n == Len(rest)
             init == SubSeq(rest, 1, n - 1)
             blanks == {j \in 0..(n - 1) :
                          \A i \in (n - j)..(n - 1) : rest[i].k = "sp"}
             run == CHOOSE j \in blanks : \A h \in blanks : h <= j
         IN IF rest[n].k = "ann"
            THEN SubAnnotations(SubSeq(rest, 1, n - 1 - run))
            ELSE Append(SubAnnotations(init), rest[n])

\* rest_clean.endswith('  ')
EndsWithTwo(rest) ==
    Len(rest) >= 2 /\ rest[Len(rest)].k = "sp" /\ rest[Len(rest) - 1].k = "sp"

\* annotate_lines lines 111-116: the text after the link in new_line
annotate_rest(rest, progress) ==
    LET rest_clean == SubAnnotations(rest)
        trailing_two == IF EndsWithTwo(rest_clean) THEN <<Sp, Sp>> ELSE <<>>
        rest_core == IF trailing_two # <<>>
                     THEN SubSeq(rest_clean, 1, Len(rest_clean) - 2)
                     ELSE rest_clean
    IN rest_core \o <<Sp, Ann(progress)>> \o trailing_two

InitAnnotate ==
    /\ \E r \in SeqsUpTo(RestTokens, MaxRest), pr \in FreshProgress :
          an = [progress |-> pr, rest |-> r, prev |-> r, passes |-> 0]
    /\ td = TdIdle
    /\ cl = ClIdle
    /\ nb = NbIdle
    /\ sy = SyIdle
    /\ ol = OlIdle
    /\ pg = PgIdle
    /\ ca = CaIdle
    /\ nl = NlIdle
    /\ rw = RwIdle

\* one run of update_outline_progress
AnPass ==
    /\ an.passes < MaxAnnotatePasses
    /\ an' = [an EXCEPT !.prev = an.rest,
                        !.rest = annotate_rest(an.rest, an.progress),
                        !.passes = an.passes + 1]
    /\ UNCHANGED <<titleVars, clVars, nbVars, syVars, olVars, pgVars, caVars,
                   nlVars, rwVars>>

NextAnnotate == AnPass

SpecAnnotate == InitAnnotate /\ [][NextAnnotate]_vars

\* C38: after a pass the line holds one annotation, the freshly computed
\* one; the two blanks that ended the line still end it and the other
\* text is as it was; a second pass leaves the text of the first.
C38_AnnotationReplaced ==
    /\ an.passes >= 1 =>
          /\ SelectSeq(an.rest, LAMBDA t : t.k = "ann") = <<Ann(an.progress)>>
          /\ EndsWithTwo(an.prev) => EndsWithTwo(an.rest)
          /\ SelectSeq(an.rest, LAMBDA t : t.k = "txt")
               = SelectSeq(an.prev, LAMBDA t : t.k = "txt")
    /\ an.passes >= 2 => an.rest = an.prev

====
